---- MODULE Spec2Model ----
(***************************************************************************)
(* reddit-discord-verifier: the !verify bot (messageCreate handler,        *)
(* handleVerifyCommand, findMatchingModmail, the modmail parser) and the   *)
(* watch-channel linker of index.js.                                       *)
(*                                                                         *)
(* Text is modelled character by character: a string is a sequence of      *)
(* one-character strings.  The check mark emoji, which is one character    *)
(* of the source, is written "CHECKMARK".                                  *)
(***************************************************************************)
EXTENDS Integers, Sequences, FiniteSets, TLC

(***************************************************************************)
(* JavaScript string primitives used by the source.                        *)
(***************************************************************************)
\* the lower-case letter of each upper-case letter
LowerOf ==
    ("A" :> "a") @@ ("B" :> "b") @@ ("C" :> "c") @@ ("D" :> "d") @@ ("E" :> "e") @@ ("F" :> "f")
    @@ ("G" :> "g") @@ ("H" :> "h") @@ ("I" :> "i") @@ ("J" :> "j") @@ ("K" :> "k") @@ ("L" :> "l")
    @@ ("M" :> "m") @@ ("N" :> "n") @@ ("O" :> "o") @@ ("P" :> "p") @@ ("Q" :> "q") @@ ("R" :> "r")
    @@ ("S" :> "s") @@ ("T" :> "t") @@ ("U" :> "u") @@ ("V" :> "v") @@ ("W" :> "w") @@ ("X" :> "x")
    @@ ("Y" :> "y") @@ ("Z" :> "z")

\* String.prototype.toLowerCase, one character
LowerChar(c) == IF c \in DOMAIN LowerOf THEN LowerOf[c] ELSE c

\* String.prototype.toLowerCase
RECURSIVE ToLower(_)
ToLower(s) == IF s = <<>> THEN <<>> ELSE <<LowerChar(Head(s))>> \o ToLower(Tail(s))

\* the regular expression class \s
IsSpace(c) == c \in {" ", "\n", "\t", "\r"}

RECURSIVE TrimLeft(_)
TrimLeft(s) == IF s = <<>> THEN <<>>
               ELSE IF IsSpace(Head(s)) THEN TrimLeft(Tail(s)) ELSE s

RECURSIVE TrimRight(_)
TrimRight(s) == IF s = <<>> THEN <<>>
                ELSE IF IsSpace(s[Len(s)]) THEN TrimRight(SubSeq(s, 1, Len(s) - 1)) ELSE s

\* String.prototype.trim
Trim(s) == TrimRight(TrimLeft(s))

\* String.prototype.startsWith
StartsWith(s, p) == Len(s) >= Len(p) /\ SubSeq(s, 1, Len(p)) = p

\* String.prototype.includes
Includes(s, p) == \E i \in 1..(Len(s) - Len(p) + 1) : SubSeq(s, i, i + Len(p) - 1) = p

\* index of the first occurrence of character c in s at or after i, 0 if none
RECURSIVE IndexOfChar(_, _, _)
IndexOfChar(s, c, i) == IF i > Len(s) THEN 0
                        ELSE IF s[i] = c THEN i ELSE IndexOfChar(s, c, i + 1)

\* String.prototype.split on a one-character separator ("" splits to [""])
RECURSIVE Split(_, _)
Split(s, sep) ==
    LET k == IndexOfChar(s, sep, 1)
    IN  IF k = 0 THEN <<s>>
        ELSE <<SubSeq(s, 1, k - 1)>> \o Split(SubSeq(s, k + 1, Len(s)), sep)

\* Array.prototype.join
RECURSIVE Join(_, _)
Join(parts, sep) ==
    IF parts = <<>> THEN <<>>
    ELSE IF Len(parts) = 1 THEN parts[1]
    ELSE parts[1] \o sep \o Join(Tail(parts), sep)

\* Array.prototype.filter(Boolean) after map(l => l.trim())
RECURSIVE TrimmedNonEmpty(_)
TrimmedNonEmpty(ls) ==
    IF ls = <<>> THEN <<>>
    ELSE LET t == Trim(Head(ls))
         IN  IF t = <<>> THEN TrimmedNonEmpty(Tail(ls))
             ELSE <<t>> \o TrimmedNonEmpty(Tail(ls))

\* Array.prototype.find(line => line.toLowerCase().startsWith(p)); <<>> is undefined
\* (no element of lines is empty, so <<>> is never a found line)
RECURSIVE FindLine(_, _)
FindLine(ls, p) ==
    IF ls = <<>> THEN <<>>
    ELSE IF StartsWith(ToLower(Head(ls)), p) THEN Head(ls) ELSE FindLine(Tail(ls), p)

(***************************************************************************)
(* Helpers of the !verify bot.                                             *)
(***************************************************************************)

\* normalize(str): (str || '').trim().toLowerCase(); null is <<>>
normalize(str) == ToLower(Trim(str))

\* str.replace(/^\*{1,2}/, '')
StripLeadingStars(s) ==
    IF Len(s) >= 2 /\ s[1] = "*" /\ s[2] = "*" THEN SubSeq(s, 3, Len(s))
    ELSE IF Len(s) >= 1 /\ s[1] = "*" THEN SubSeq(s, 2, Len(s))
    ELSE s

\* str.replace(/\*{1,2}$/, ''): the leftmost match, so two stars when two end the string
StripTrailingStars(s) ==
    IF Len(s) >= 2 /\ s[Len(s)] = "*" /\ s[Len(s) - 1] = "*" THEN SubSeq(s, 1, Len(s) - 2)
    ELSE IF Len(s) >= 1 /\ s[Len(s)] = "*" THEN SubSeq(s, 1, Len(s) - 1)
    ELSE s

\* str.match(/^\[([^\]]+)\]\([^)]+\)$/): the label, or <<>> when there is no match
\* (the label has at least one character, so <<>> is never a label)
LinkLabel(s) ==
    LET k == IndexOfChar(s, "]", 1)
        n == Len(s)
    IN  IF /\ n >= 6
           /\ s[1] = "["
           /\ k >= 3
           /\ k + 1 <= n /\ s[k + 1] = "("
           /\ s[n] = ")"
           /\ n >= k + 3
           /\ IndexOfChar(s, ")", k + 2) = n
        THEN SubSeq(s, 2, k - 1)
        ELSE <<>>

\* the link label when str is a link, else str
Unlinked(str, label) == IF label # <<>> THEN label ELSE str
UnwrapLink(str) == Unlinked(str, LinkLabel(str))

\* stripMarkdown(str)
stripMarkdown(str) ==
    IF str = <<>> THEN str
    ELSE Trim(StripTrailingStars(StripLeadingStars(
             UnwrapLink(StripTrailingStars(StripLeadingStars(str))))))

(***************************************************************************)
(* A Discord message: content, embeds (description, fields), creation      *)
(* time.  An absent description or field part is <<>>.                     *)
(***************************************************************************)

\* parts.push(`${name}: ${value}`) for each field of one embed
RECURSIVE FieldLines(_)
FieldLines(fields) ==
    IF fields = <<>> THEN <<>>
    ELSE <<Head(fields).name \o <<":", " ">> \o Head(fields).value>> \o FieldLines(Tail(fields))

\* the parts pushed for the embeds, in order
RECURSIVE EmbedParts(_)
EmbedParts(embeds) ==
    IF embeds = <<>> THEN <<>>
    ELSE (IF Head(embeds).description # <<>> THEN <<Head(embeds).description>> ELSE <<>>)
         \o FieldLines(Head(embeds).fields)
         \o EmbedParts(Tail(embeds))

\* buildFullTextFromMessage(message)
buildFullTextFromMessage(message) ==
    Join((IF Trim(message.content) # <<>> THEN <<message.content>> ELSE <<>>)
         \o EmbedParts(message.embeds), <<"\n">>)

(***************************************************************************)
(* The modmail parser.                                                     *)
(***************************************************************************)
LinkedRedditPrefix ==
    <<"CHECKMARK", " ", "L", "i", "n", "k", "e", "d", " ", "R", "e", "d", "d", "i", "t">>
CouldntFindPrefix ==
    <<"I", " ", "c", "o", "u", "l", "d", "n", "'", "t", " ", "f", "i", "n", "d", " ",
      "a", " ", "m", "e", "m", "b", "e", "r">>
AuthorLabel == <<"a", "u", "t", "h", "o", "r", ":">>
BodyLabel == <<"b", "o", "d", "y", ":">>
StatusLabel == <<"s", "t", "a", "t", "u", "s", ":">>
BannedMarker == <<"b", "a", "n", "n", "e", "d">>
UnknownStatus == <<"U", "n", "k", "n", "o", "w", "n">>
DiscordWord == <<"d", "i", "s", "c", "o", "r", "d">>
WithWord == <<"w", "i", "t", "h">>
IdWord == <<"i", "d">>

\* the parser's null, and a parsed record
NoRecord == [isNull |-> TRUE, redditName |-> <<>>, discordName |-> <<>>, status |-> <<>>]
Record(r, d, s) == [isNull |-> FALSE, redditName |-> r, discordName |-> d, status |-> s]

\* first index at or after i that is not whitespace (Len(s) + 1 if none): \s*
RECURSIVE SkipSpaces(_, _)
SkipSpaces(s, i) == IF i <= Len(s) /\ IsSpace(s[i]) THEN SkipSpaces(s, i + 1) ELSE i

\* first index at or after i that is whitespace (Len(s) + 1 if none): [^\s]+
RECURSIVE SkipNonSpaces(_, _)
SkipNonSpaces(s, i) == IF i <= Len(s) /\ ~IsSpace(s[i]) THEN SkipNonSpaces(s, i + 1) ELSE i

\* the literal w (lower case) at index i of s, letter case ignored
WordAt(s, i, w) == i + Len(w) - 1 <= Len(s) /\ ToLower(SubSeq(s, i, i + Len(w) - 1)) = w

\* :\s*([^\s]+) at index i: the captured token, <<>> when it does not match
ColonToken(s, i) ==
    IF i <= Len(s) /\ s[i] = ":"
    THEN LET a == SkipSpaces(s, i + 1)
             b == SkipNonSpaces(s, a)
         IN  SubSeq(s, a, b - 1)
    ELSE <<>>

\* \s+with\s+discord\s+id at index i: the index after it, 0 when it does not match
WithDiscordIdEnd(s, i) ==
    LET a == SkipSpaces(s, i)
        b == SkipSpaces(s, a + 4)
        c == SkipSpaces(s, b + 7)
    IN  IF /\ a > i /\ WordAt(s, a, WithWord)
           /\ b > a + 4 /\ WordAt(s, b, DiscordWord)
           /\ c > b + 7 /\ WordAt(s, c, IdWord)
        THEN c + 2
        ELSE 0

\* the first of two captures that matched
FirstMatch(m1, m2) == IF m1 # <<>> THEN m1 ELSE m2

\* :\s*([^\s]+) after the optional group that ends before index e (0: no group)
AfterGroup(s, e) == IF e = 0 THEN <<>> ELSE ColonToken(s, e)

\* /discord(?:\s+with\s+discord\s+id)?:\s*([^\s]+)/i anchored at index i: the
\* captured token, <<>> when there is no match at i.  The optional group is tried
\* first and given up when the rest does not match after it.
BodyMatchAt(s, i) ==
    IF ~WordAt(s, i, DiscordWord) THEN <<>>
    ELSE FirstMatch(AfterGroup(s, WithDiscordIdEnd(s, i + 7)), ColonToken(s, i + 7))

\* bodyPart.match(...)[1]: the capture of the leftmost match, <<>> when none
RECURSIVE BodyMatchFrom(_, _)
BodyMatchFrom(s, i) ==
    IF i > Len(s) THEN <<>>
    ELSE IF BodyMatchAt(s, i) # <<>> THEN BodyMatchAt(s, i)
    ELSE BodyMatchFrom(s, i + 1)

\* line.replace(/^label\s*/i, '').trim() for a line that starts with the label
AfterLabel(line, label) == Trim(SubSeq(line, Len(label) + 1, Len(line)))

\* (parts[1] || '').trim() || 'Unknown'
StatusOfParts(parts) ==
    IF Len(parts) >= 2 /\ Trim(parts[2]) # <<>> THEN Trim(parts[2]) ELSE UnknownStatus

\* let status = 'Unknown'; if (statusLine) { status = ...statusLine.split(':')... }
StatusOfLine(statusLine) ==
    IF statusLine = <<>> THEN UnknownStatus ELSE StatusOfParts(Split(statusLine, ":"))

\* the reddit name of the Author line, <<>> (null) without such a line or name
AuthorName(authorLine) ==
    IF authorLine = <<>> THEN <<>> ELSE stripMarkdown(AfterLabel(authorLine, AuthorLabel))

\* if (!redditName) redditName = stripMarkdown(lines[0])
RedditNameOf(fromAuthor, lines) ==
    IF fromAuthor # <<>> THEN fromAuthor ELSE stripMarkdown(lines[1])

\* the Discord name of the Body line, <<>> (null) without such a line or phrase
DiscordNameOf(bodyLine) ==
    IF bodyLine = <<>> THEN <<>>
    ELSE Trim(BodyMatchFrom(stripMarkdown(AfterLabel(bodyLine, BodyLabel)), 1))

\* the record whatever the names are (the test for empty names left out)
RecordAlways(redditName, discordName, status) == Record(redditName, discordName, status)

\* if (!redditName || !discordName) return null; return { ... }
RecordOrNull(redditName, discordName, status) ==
    IF redditName = <<>> \/ discordName = <<>> THEN NoRecord
    ELSE Record(redditName, discordName, status)

\* the parse without the test for the bot's own notices
ParseLinesOfNotices(lines) ==
    IF lines = <<>> THEN NoRecord
    ELSE RecordOrNull(RedditNameOf(AuthorName(FindLine(lines, AuthorLabel)), lines),
                      DiscordNameOf(FindLine(lines, BodyLabel)),
                      StatusOfLine(FindLine(lines, StatusLabel)))

\* parseModmailMessageFromFullText from the non-empty trimmed lines on
ParseLines(lines) ==
    IF lines = <<>> THEN NoRecord
    ELSE IF StartsWith(lines[1], LinkedRedditPrefix) \/ StartsWith(lines[1], CouldntFindPrefix)
    THEN NoRecord
    ELSE RecordOrNull(RedditNameOf(AuthorName(FindLine(lines, AuthorLabel)), lines),
                      DiscordNameOf(FindLine(lines, BodyLabel)),
                      StatusOfLine(FindLine(lines, StatusLabel)))

\* parseModmailMessageFromFullText(fullText)
parseModmailMessageFromFullText(fullText) ==
    ParseLines(TrimmedNonEmpty(Split(fullText, "\n")))

(***************************************************************************)
(* Configuration and fixed values of the !verify bot.                      *)
(***************************************************************************)
LOOKBACK_HOURS == 12
MAX_SCANNED == 500
FETCH_LIMIT == 100
MS_PER_HOUR == 3600000

MODMAIL_CHANNEL_ID == "modmail"
VERIFY_CHANNEL_ID == "verify"
OTHER_CHANNEL_ID == "general"

VerifyCommand == <<"!", "v", "e", "r", "i", "f", "y">>
RedditCommand == <<"!", "r", "e", "d", "d", "i", "t">>
UserPrefix == <<"u", "/">>
NickSeparator == <<" ", "|", " ">>
ProfileUrlPrefix ==
    <<"h", "t", "t", "p", "s", ":", "/", "/", "w", "w", "w", ".", "r", "e", "d", "d", "i", "t",
      ".", "c", "o", "m", "/", "u", "/">>

(***************************************************************************)
(* The modmail channel's history, newest first, as runs of equal messages: *)
(* <<[msg |-> m, n |-> 3]>> is m three times.  A message's id is its       *)
(* position, 1 the newest.                                                 *)
(***************************************************************************)
RECURSIVE HistoryLen(_)
HistoryLen(h) == IF h = <<>> THEN 0 ELSE Head(h).n + HistoryLen(Tail(h))

RECURSIVE MsgAt(_, _)
MsgAt(h, i) == IF i <= Head(h).n THEN Head(h).msg ELSE MsgAt(Tail(h), i - Head(h).n)

\* modmailChannel.messages.fetch({ limit: 100, before: lastId }): the ids of the
\* batch are first..last, empty when first > last (lastId 0 is undefined)
BatchFirst(lastId) == lastId + 1
BatchLast(h, lastId) ==
    IF HistoryLen(h) < lastId + FETCH_LIMIT THEN HistoryLen(h) ELSE lastId + FETCH_LIMIT

(***************************************************************************)
(* findMatchingModmail: the conditions of the loop body.                   *)
(***************************************************************************)

\* const cutoff = Date.now() - lookbackHours * 60 * 60 * 1000
Cutoff(now, lookbackHours) == now - lookbackHours * MS_PER_HOUR

\* a cap that lets one more message through
OverCapLate(scanned) == scanned > MAX_SCANNED + 1

\* scanned > MAX_SCANNED
OverCap(scanned) == scanned > MAX_SCANNED

\* a cutoff that also shuts out the message created exactly at it
OlderOrAtCutoff(createdTimestamp, cutoff) == createdTimestamp <= cutoff

\* msg.createdTimestamp < cutoff
OlderThanCutoff(createdTimestamp, cutoff) == createdTimestamp < cutoff

\* status && status.toLowerCase().includes('banned')
StatusIsBanned(status) == status # <<>> /\ Includes(ToLower(status), BannedMarker)

\* parsedReddit !== targetReddit, negated
RedditMatches(redditName, redditNameInput) == normalize(redditName) = normalize(redditNameInput)

\* a local-identity check that lets every name through
DiscordMatchesAnyName(discordName, user) == TRUE

\* discordMatches
DiscordMatches(discordName, user) ==
    \/ normalize(discordName) = normalize(user.username)
    \/ (normalize(user.globalName) # <<>> /\ normalize(discordName) = normalize(user.globalName))

\* the result of one pass over a batch
NoMatch == [found |-> FALSE, parsed |-> NoRecord, id |-> 0]
Match(parsed, id) == [found |-> TRUE, parsed |-> parsed, id |-> id]
LoopResult(kind, scanned, inspected, match) ==
    [kind |-> kind, scanned |-> scanned, inspected |-> inspected, match |-> match]

\* the loop body after the parse: skip (continue) or return the match
Decide(parsed, i, scanned, seen, redditNameInput, user) ==
    IF \/ parsed.isNull
       \/ StatusIsBanned(parsed.status)
       \/ ~RedditMatches(parsed.redditName, redditNameInput)
       \/ ~DiscordMatches(parsed.discordName, user)
    THEN LoopResult("next", scanned, seen, NoMatch)
    ELSE LoopResult("return", scanned, seen, Match(parsed, i))

\* one iteration of for (const msg of batch.values()) { ... } on message id i, from
\* the loop state st; kind "return" is a return inside the loop, "next" goes on.
\* inspected collects the ids handed to buildFullTextFromMessage and the parser.
ScanOne(h, i, st, cutoff, redditNameInput, user) ==
    IF OverCap(st.scanned + 1) THEN LoopResult("return", st.scanned + 1, st.inspected, NoMatch)
    ELSE IF OlderThanCutoff(MsgAt(h, i).createdTimestamp, cutoff)
    THEN LoopResult("return", st.scanned + 1, st.inspected, NoMatch)
    ELSE Decide(parseModmailMessageFromFullText(buildFullTextFromMessage(MsgAt(h, i))),
                i, st.scanned + 1, Append(st.inspected, i), redditNameInput, user)

\* the iterations for message ids lo..hi in order, stopping at a return (the range
\* is halved only to keep the evaluation shallow; the order is lo, lo + 1, ..., hi)
RECURSIVE ScanRange(_, _, _, _, _, _, _)
\* a loop that goes on after a return, so that a later message replaces the match
ScanRestPastReturn(h, lo, hi, left, cutoff, redditNameInput, user) ==
    ScanRange(h, lo, hi, left, cutoff, redditNameInput, user)
ScanRest(h, lo, hi, left, cutoff, redditNameInput, user) ==
    IF left.kind = "return" THEN left
    ELSE ScanRange(h, lo, hi, left, cutoff, redditNameInput, user)
ScanRange(h, lo, hi, st, cutoff, redditNameInput, user) ==
    IF lo > hi THEN st
    ELSE IF lo = hi THEN ScanOne(h, lo, st, cutoff, redditNameInput, user)
    ELSE ScanRest(h, (lo + hi) \div 2 + 1, hi,
                  ScanRange(h, lo, (lo + hi) \div 2, st, cutoff, redditNameInput, user),
                  cutoff, redditNameInput, user)

\* for (const msg of batch.values()) { ... } over the batch first..last
ScanBatch(h, first, last, scanned, inspected, cutoff, redditNameInput, user) ==
    ScanRange(h, first, last, LoopResult("next", scanned, inspected, NoMatch),
              cutoff, redditNameInput, user)

(***************************************************************************)
(* State.                                                                  *)
(*   modmail  the modmail channel's history (runs, newest first)           *)
(*   members  the guild's members: user names, nickname, verified role     *)
(*   clock    Date.now()                                                   *)
(*   att      one record per messageCreate event being handled: the        *)
(*            message, the handler's position (the call it awaits), its    *)
(*            locals (scanDone: findMatchingModmail has returned), the     *)
(*            message ids it has parsed and the collaborator calls that    *)
(*            have settled                                                 *)
(***************************************************************************)
VARIABLES modmail, members, clock, att

vars == <<modmail, members, clock, att>>

\* a reply's template and the values interpolated into it
Reply(kind, args) == [kind |-> kind, args |-> args]
NoCall == Reply("none", <<>>)

\* one collaborator call that has settled: fulfilled (ok) or rejected
Call(op, arg, ok) == [op |-> op, arg |-> arg, ok |-> ok]

\* GuildMember.displayName: nickname ?? globalName ?? username (absent is <<>>)
DisplayName(m) ==
    IF m.nickname # <<>> THEN m.nickname
    ELSE IF m.globalName # <<>> THEN m.globalName
    ELSE m.username

\* str.split(/\s+/) of a trimmed string
RECURSIVE SplitWhitespace(_)
SplitWhitespace(s) ==
    IF s = <<>> THEN <<>>
    ELSE LET e == SkipNonSpaces(s, 1)
         IN  <<SubSeq(s, 1, e - 1)>> \o SplitWhitespace(SubSeq(s, SkipSpaces(s, e), Len(s)))

\* const args = message.content.trim().split(/\s+/)
CommandArgs(content) ==
    IF Trim(content) = <<>> THEN <<<<>>>> ELSE SplitWhitespace(Trim(content))

\* redditNameInput: args[1] without a leading u/ (any letter case)
RedditNameInput(args) ==
    IF StartsWith(ToLower(args[2]), UserPrefix) THEN SubSeq(args[2], 3, Len(args[2]))
    ELSE args[2]

\* a nickname from the global name when the account has one
NewNickGlobalFirst(redditName, user) ==
    redditName \o <<" ", "|", " ">>
        \o (IF user.globalName # <<>> THEN user.globalName ELSE user.username)

\* const newNick = `${redditName} | ${member.user.username}`
NewNick(redditName, user) == redditName \o NickSeparator \o user.username

\* `https://www.reddit.com/u/${redditName}`
ProfileUrl(redditName) == ProfileUrlPrefix \o redditName

\* the lookup's reply with the name as it stands before the '|', a leading u/ kept
RedditReplyKeepingPrefix(message) ==
    LET target == IF message.mention # 0 THEN message.mention ELSE message.member
        nickname == DisplayName(members[target])
        redditName == Trim(Split(nickname, "|")[1])
    IN  IF target = 0 THEN Reply("notResolved", <<>>)
        ELSE IF nickname = <<>> \/ ~Includes(nickname, <<"|">>) THEN Reply("notLinked", <<>>)
        ELSE Reply("profile", <<redditName, nickname, ProfileUrl(redditName)>>)

\* handleRedditCommand up to its reply
RedditReply(message) ==
    LET target == IF message.mention # 0 THEN message.mention ELSE message.member
        nickname == DisplayName(members[target])
        redditNameRaw == Trim(Split(nickname, "|")[1])
        redditName == IF StartsWith(ToLower(redditNameRaw), UserPrefix)
                      THEN SubSeq(redditNameRaw, 3, Len(redditNameRaw))
                      ELSE redditNameRaw
    IN  IF target = 0 THEN Reply("notResolved", <<>>)
        ELSE IF nickname = <<>> \/ ~Includes(nickname, <<"|">>) THEN Reply("notLinked", <<>>)
        ELSE Reply("profile", <<redditName, nickname, ProfileUrl(redditName)>>)

\* the reply of the no-match branch
NoMatchReply(a) ==
    Reply("noMatch", <<att[a].redditNameInput, members[att[a].msg.member].username>>)

\* the reply after a successful role grant, whatever setNickname did
SuccessReply(a) ==
    LET parsed == att[a].match.parsed
    IN  Reply("success", <<parsed.redditName, members[att[a].msg.member].username,
                           ProfileUrl(parsed.redditName), parsed.discordName>>)

\* a reply is awaited; the handler returns when it is sent
AwaitReply(a, reply, base) ==
    att' = [att EXCEPT ![a] = [base EXCEPT !.pc = "awaitReply", !.pending = reply]]

\* a call inside handleVerifyCommand threw: the catch of the messageCreate handler
\* logs and awaits a reply of its own
CatchVerify(a, base) ==
    att' = [att EXCEPT ![a] = [base EXCEPT !.pc = "awaitErrorReply",
                                           !.pending = Reply("verifyError", <<>>)]]

Logged(a, op, arg, ok) == [att[a] EXCEPT !.calls = Append(@, Call(op, arg, ok))]

(***************************************************************************)
(* client.on('messageCreate'): the handler up to its first await.          *)
(***************************************************************************)
\* the handler without the test of the author
MessageCreateOfAnyAuthor(a) ==
    LET message == att[a].msg
        contentLower == ToLower(Trim(message.content))
        args == CommandArgs(message.content)
    IN  /\ att[a].pc = "new"
        /\ UNCHANGED <<modmail, members, clock>>
        /\ IF message.channelId = MODMAIL_CHANNEL_ID
           THEN att' = [att EXCEPT ![a].pc = "done"]
           ELSE IF StartsWith(contentLower, RedditCommand)
           THEN att' = [att EXCEPT ![a].pc = "awaitRedditReply",
                                   ![a].pending = RedditReply(message)]
           ELSE IF message.channelId # VERIFY_CHANNEL_ID
           THEN att' = [att EXCEPT ![a].pc = "done"]
           ELSE IF ~StartsWith(contentLower, VerifyCommand)
           THEN att' = [att EXCEPT ![a].pc = "awaitDelete"]
           ELSE IF Len(args) < 2
           THEN AwaitReply(a, Reply("usage", <<>>), att[a])
           ELSE att' = [att EXCEPT ![a].pc = "awaitGuild",
                                   ![a].redditNameInput = RedditNameInput(args)]

\* client.on('messageCreate', ...)
MessageCreate(a) ==
    LET message == att[a].msg
        contentLower == ToLower(Trim(message.content))
        args == CommandArgs(message.content)
    IN  /\ att[a].pc = "new"
        /\ UNCHANGED <<modmail, members, clock>>
        /\ IF message.authorBot THEN att' = [att EXCEPT ![a].pc = "done"]
           ELSE IF message.channelId = MODMAIL_CHANNEL_ID
           THEN att' = [att EXCEPT ![a].pc = "done"]
           ELSE IF StartsWith(contentLower, RedditCommand)
           THEN att' = [att EXCEPT ![a].pc = "awaitRedditReply",
                                   ![a].pending = RedditReply(message)]
           ELSE IF message.channelId # VERIFY_CHANNEL_ID
           THEN att' = [att EXCEPT ![a].pc = "done"]
           ELSE IF ~StartsWith(contentLower, VerifyCommand)
           THEN att' = [att EXCEPT ![a].pc = "awaitDelete"]
           ELSE IF Len(args) < 2
           THEN AwaitReply(a, Reply("usage", <<>>), att[a])
           ELSE att' = [att EXCEPT ![a].pc = "awaitGuild",
                                   ![a].redditNameInput = RedditNameInput(args)]

\* await message.delete() settles; a rejection is caught and logged
DeleteSettles(a) ==
    /\ att[a].pc = "awaitDelete"
    /\ \E ok \in BOOLEAN :
         att' = [att EXCEPT ![a] = [Logged(a, "delete", <<>>, ok) EXCEPT !.pc = "done"]]
    /\ UNCHANGED <<modmail, members, clock>>

\* await handleRedditCommand's reply settles; a rejection goes to the catch, which
\* awaits a reply of its own
RedditReplySettles(a) ==
    /\ att[a].pc = "awaitRedditReply"
    /\ \E ok \in BOOLEAN :
         LET base == Logged(a, "reply", att[a].pending, ok)
         IN  IF ok THEN att' = [att EXCEPT ![a] = [base EXCEPT !.pc = "done", !.pending = NoCall]]
             ELSE att' = [att EXCEPT ![a] = [base EXCEPT !.pc = "awaitErrorReply",
                                                         !.pending = Reply("redditError", <<>>)]]
    /\ UNCHANGED <<modmail, members, clock>>

(***************************************************************************)
(* handleVerifyCommand, one action per await.                              *)
(***************************************************************************)

\* await client.guilds.fetch(GUILD_ID).catch(() => null) settles
GuildFetchSettles(a) ==
    /\ att[a].pc = "awaitGuild"
    /\ \E ok \in BOOLEAN :
         LET base == Logged(a, "guilds.fetch", <<>>, ok)
         IN  IF ~ok THEN AwaitReply(a, Reply("noGuild", <<>>), base)
             ELSE att' = [att EXCEPT ![a] = [base EXCEPT !.pc = "awaitChannel"]]
    /\ UNCHANGED <<modmail, members, clock>>

\* a channel fetch after which neither the channel nor the member is looked at
ChannelFetchSettlesUnchecked(a) ==
    /\ att[a].pc = "awaitChannel"
    /\ \E ok \in BOOLEAN :
         att' = [att EXCEPT ![a] =
                   [Logged(a, "channels.fetch", <<>>, ok) EXCEPT
                       !.pc = "awaitSearchingReply",
                       !.pending = Reply("searching", <<att[a].redditNameInput>>)]]
    /\ UNCHANGED <<modmail, members, clock>>

\* await client.channels.fetch(MODMAIL_CHANNEL_ID).catch(() => null) settles: ok is
\* a text-based channel; then message.member, and the searching notice
ChannelFetchSettles(a) ==
    /\ att[a].pc = "awaitChannel"
    /\ \E ok \in BOOLEAN :
         LET base == Logged(a, "channels.fetch", <<>>, ok)
         IN  IF ~ok THEN AwaitReply(a, Reply("badChannel", <<>>), base)
             ELSE IF att[a].msg.member = 0 THEN AwaitReply(a, Reply("noMember", <<>>), base)
             ELSE att' = [att EXCEPT ![a] =
                            [base EXCEPT !.pc = "awaitSearchingReply",
                                         !.pending = Reply("searching", <<att[a].redditNameInput>>)]]
    /\ UNCHANGED <<modmail, members, clock>>

\* the searching notice settles; findMatchingModmail starts and awaits its first page
SearchingReplySettles(a) ==
    /\ att[a].pc = "awaitSearchingReply"
    /\ \E ok \in BOOLEAN :
         LET base == Logged(a, "reply", att[a].pending, ok)
         IN  IF ~ok THEN CatchVerify(a, base)
             ELSE att' = [att EXCEPT ![a] =
                            [base EXCEPT !.pc = "awaitFetch", !.pending = NoCall,
                                         !.cutoff = Cutoff(clock, LOOKBACK_HOURS),
                                         !.lastId = 0, !.scanned = 0]]
    /\ UNCHANGED <<modmail, members, clock>>

\* const match = await findMatchingModmail(...) is assigned, and what
\* handleVerifyCommand does with it up to its next await
AfterScan(a, base, match) ==
    IF ~match.found THEN AwaitReply(a, NoMatchReply(a), [base EXCEPT !.scanDone = TRUE])
    ELSE IF StatusIsBanned(match.parsed.status)
    THEN AwaitReply(a, Reply("banned", <<match.parsed.redditName, match.parsed.status>>),
                    [base EXCEPT !.scanDone = TRUE, !.match = match])
    ELSE att' = [att EXCEPT ![a] = [base EXCEPT !.pc = "awaitRolesAdd", !.scanDone = TRUE,
                                                !.match = match]]

\* a cursor taken from the first (newest) message of the batch
AfterBatchNewestCursor(a, base, r, last) ==
    IF r.kind = "return"
    THEN AfterScan(a, [base EXCEPT !.scanned = r.scanned, !.inspected = r.inspected], r.match)
    ELSE att' = [att EXCEPT ![a] = [base EXCEPT !.scanned = r.scanned,
                                                !.inspected = r.inspected,
                                                !.lastId = base.lastId + 1]]

\* a loop that, at the end of a batch without a return, asks for no further page
AfterBatchWithoutNextPage(a, base, r, last) ==
    IF r.kind = "return"
    THEN AfterScan(a, [base EXCEPT !.scanned = r.scanned, !.inspected = r.inspected], r.match)
    ELSE att' = [att EXCEPT ![a] = [base EXCEPT !.scanned = r.scanned,
                                                !.inspected = r.inspected,
                                                !.pc = "idle"]]

\* the loop over a fetched batch has run: handle its return, or ask for the next page
AfterBatch(a, base, r, last) ==
    IF r.kind = "return"
    THEN AfterScan(a, [base EXCEPT !.scanned = r.scanned, !.inspected = r.inspected], r.match)
    ELSE att' = [att EXCEPT ![a] = [base EXCEPT !.scanned = r.scanned,
                                                !.inspected = r.inspected, !.lastId = last]]

\* the fetch fulfilled with the batch first..last
OnBatch(a, base, first, last) ==
    IF first > last THEN AfterScan(a, base, NoMatch)
    ELSE AfterBatch(a, base,
                    ScanBatch(modmail, first, last, att[a].scanned, att[a].inspected,
                              att[a].cutoff, att[a].redditNameInput, members[att[a].msg.member]),
                    last)

\* await modmailChannel.messages.fetch(...) settles: the loop over the batch runs to
\* its end or to a return, and the next page is requested or the result handled
FetchSettles(a) ==
    /\ att[a].pc = "awaitFetch"
    /\ \E ok \in BOOLEAN :
         IF ~ok THEN CatchVerify(a, Logged(a, "fetch", att[a].lastId, ok))
         ELSE OnBatch(a, Logged(a, "fetch", att[a].lastId, ok),
                      BatchFirst(att[a].lastId), BatchLast(modmail, att[a].lastId))
    /\ UNCHANGED <<modmail, members, clock>>

\* a role grant that takes the role away from an account that has it
RolesAddSettlesToggling(a) ==
    /\ att[a].pc = "awaitRolesAdd"
    /\ \E ok \in BOOLEAN :
         LET base == Logged(a, "roles.add", att[a].msg.member, ok)
             m == att[a].msg.member
         IN  IF ~ok
             THEN /\ AwaitReply(a, Reply("roleFail", <<att[a].match.parsed.redditName>>), base)
                  /\ UNCHANGED members
             ELSE /\ att' = [att EXCEPT ![a] =
                               [base EXCEPT !.pc = "awaitSetNickname",
                                            !.pending = NewNick(att[a].match.parsed.redditName,
                                                                members[m])]]
                  /\ members' = [members EXCEPT ![m].role = ~members[m].role]
    /\ UNCHANGED <<modmail, clock>>

\* await member.roles.add(ROLE_ID) settles
RolesAddSettles(a) ==
    /\ att[a].pc = "awaitRolesAdd"
    /\ \E ok \in BOOLEAN :
         LET base == Logged(a, "roles.add", att[a].msg.member, ok)
             m == att[a].msg.member
         IN  IF ~ok
             THEN /\ AwaitReply(a, Reply("roleFail", <<att[a].match.parsed.redditName>>), base)
                  /\ UNCHANGED members
             ELSE /\ att' = [att EXCEPT ![a] =
                               [base EXCEPT !.pc = "awaitSetNickname",
                                            !.pending = NewNick(att[a].match.parsed.redditName,
                                                                members[m])]]
                  /\ members' = [members EXCEPT ![m].role = TRUE]
    /\ UNCHANGED <<modmail, clock>>

\* await member.setNickname(newNick) settles; a rejection is caught and logged
SetNicknameSettles(a) ==
    /\ att[a].pc = "awaitSetNickname"
    /\ \E ok \in BOOLEAN :
         LET base == Logged(a, "setNickname", att[a].pending, ok)
             m == att[a].msg.member
         IN  /\ AwaitReply(a, SuccessReply(a), base)
             /\ members' = IF ok THEN [members EXCEPT ![m].nickname = att[a].pending]
                           ELSE members
    /\ UNCHANGED <<modmail, clock>>

\* a reply of handleVerifyCommand after which it returns settles
ReplySettles(a) ==
    /\ att[a].pc = "awaitReply"
    /\ \E ok \in BOOLEAN :
         LET base == Logged(a, "reply", att[a].pending, ok)
         IN  IF ok THEN att' = [att EXCEPT ![a] = [base EXCEPT !.pc = "done", !.pending = NoCall]]
             ELSE CatchVerify(a, base)
    /\ UNCHANGED <<modmail, members, clock>>

\* the reply awaited inside a catch block of the messageCreate handler settles; its
\* rejection leaves the handler
ErrorReplySettles(a) ==
    /\ att[a].pc = "awaitErrorReply"
    /\ \E ok \in BOOLEAN :
         att' = [att EXCEPT ![a] = [Logged(a, "reply", att[a].pending, ok) EXCEPT
                                       !.pc = "done", !.pending = NoCall, !.uncaught = ~ok]]
    /\ UNCHANGED <<modmail, members, clock>>

(***************************************************************************)
(* The inputs: forwarded modmail, chat in the channel, members, messages.  *)
(***************************************************************************)
sTom == <<"T", "o", "m">>
sAnn == <<"A", "n", "n">>
sBo == <<"b", "o">>
sBob == <<"B", "o", "b">>
sAl == <<"a", "l">>
sAuthor == <<"A", "u", "t", "h", "o", "r">>
sBody == <<"B", "o", "d", "y">>
sStatus == <<"S", "t", "a", "t", "u", "s">>
sActive == <<"A", "c", "t", "i", "v", "e">>
sRegisterBo ==
    <<"R", "e", "g", "i", "s", "t", "e", "r", " ", "D", "i", "s", "c", "o", "r", "d", " ",
      "w", "i", "t", "h", " ", "D", "i", "s", "c", "o", "r", "d", " ", "I", "D", ":", " ",
      "b", "o">>
sVerifyBo ==
    <<"V", "e", "r", "i", "f", "y", " ", "D", "i", "s", "c", "o", "r", "d", ":", " ", "b", "o">>
sVerifyAl ==
    <<"V", "e", "r", "i", "f", "y", " ", "D", "i", "s", "c", "o", "r", "d", ":", " ", "a", "l">>

Field(name, value) == [name |-> name, value |-> value]
Forward(description, author, body, status) ==
    [content |-> <<>>,
     embeds |-> <<[description |-> description,
                   fields |-> <<Field(sAuthor, author), Field(sBody, body),
                                Field(sStatus, status)>>]>>]
Plain(content) == [content |-> content, embeds |-> <<>>]

\* Author: Tom / Body: Register Discord with Discord ID: bo / Status: Active
TextActive ==
    Forward(<<"N", "e", "w", " ", "m", "o", "d", "m", "a", "i", "l">>, sTom, sRegisterBo, sActive)
\* the same claim for the global name, in other letter case, as plain content
TextGlobal ==
    Plain(<<"A", "u", "t", "h", "o", "r", ":", " ", "T", "O", "M", "\n",
            "B", "o", "d", "y", ":", " ", "V", "e", "r", "i", "f", "y", " ",
            "D", "i", "s", "c", "o", "r", "d", ":", " ", "B", "O", "B", "\n",
            "S", "t", "a", "t", "u", "s", ":", " ", "A", "c", "t", "i", "v", "e">>)
\* Author: **[Tom](r)** / Body: Verify Discord: bo / Status: BaNNed
TextBanned ==
    Forward(<<>>, <<"*", "*", "[", "T", "o", "m", "]", "(", "r", ")", "*", "*">>, sVerifyBo,
            <<"B", "a", "N", "N", "e", "d">>)
\* Author: Tom / Body: Verify Discord: bo / Status: Muted: Banned
TextMutedBanned ==
    Forward(<<>>, sTom, sVerifyBo,
            <<"M", "u", "t", "e", "d", ":", " ", "B", "a", "n", "n", "e", "d">>)
\* Author: Tom / Body: Verify Discord: al / Status: Active
TextOtherDiscord == Forward(<<>>, sTom, sVerifyAl, sActive)
\* Author: Ann / Body: Verify Discord: bo / Status: Active
TextOtherReddit == Forward(<<>>, sAnn, sVerifyBo, sActive)
\* chat that is no forward, and a message with neither content nor embeds
TextChat == Plain(<<"h", "i">>)
TextEmpty == Plain(<<>>)

Texts == {TextActive, TextGlobal, TextBanned, TextMutedBanned, TextOtherDiscord,
          TextOtherReddit, TextChat, TextEmpty}

LookbackMs == LOOKBACK_HOURS * MS_PER_HOUR
Clocks == {LookbackMs + 5}
\* ages in milliseconds: inside the window, exactly at the cutoff, older than it
Ages == {LookbackMs - 1, LookbackMs, LookbackMs + 1}

At(text, createdTimestamp) ==
    [content |-> text.content, embeds |-> text.embeds, createdTimestamp |-> createdTimestamp]
Run(msg, n) == [msg |-> msg, n |-> n]

\* channel history is newest first
NewestFirst(h) ==
    \A i \in 1..(Len(h) - 1) : h[i].msg.createdTimestamp >= h[i + 1].msg.createdTimestamp

\* every text alone, and at most MaxHistory single messages of the core texts
CoreTexts == {TextActive, TextGlobal, TextBanned, TextMutedBanned, TextChat}
MaxHistory == 2
SingleHistories(now) == {<<Run(At(t, now - age), 1)>> : t \in Texts, age \in Ages}
ShortHistories(now) ==
    SingleHistories(now) \cup
    UNION {{h \in [1..k -> {Run(At(t, now - age), 1) : t \in CoreTexts, age \in Ages}] :
              NewestFirst(h)} : k \in 0..MaxHistory}

\* a long run of messages that are never a match, then one more message
LongRunLengths == {99, 100, 499, 500}
LongHistories(now) ==
    {h \in {<<Run(At(f, now - (LookbackMs - 1)), n), Run(At(t, now - age), 1)>> :
              f \in {TextEmpty, TextOtherReddit}, n \in LongRunLengths,
              t \in {TextActive, TextEmpty}, age \in Ages} : NewestFirst(h)}

MemberIds == {1, 2}
Member(username, globalName) ==
    [username |-> username, globalName |-> globalName, nickname |-> <<>>, role |-> FALSE]
MemberSets == {<<Member(sBo, g), Member(sAl, <<>>)>> : g \in {sBob, <<>>}}

\* members that carry a nickname already
WithNickname(m, nickname) == [m EXCEPT !.nickname = nickname]
LinkedNicknames ==
    {<<"u", "/", "T", "o", "m", " ", "|", " ", "b", "o">>,
     <<" ", "U", "/", "A", "n", "n", "|", "a", "l", " ">>,
     <<"T", "o", "m", " ", "|", " ", "a", "l", " ", "|", " ", "x">>,
     <<"|", " ", "a", "l">>}
LinkedMemberSets ==
    {<<WithNickname(Member(sBo, sBob), n1), WithNickname(Member(sAl, <<>>), n2)>> :
        n1 \in {<<>>} \cup LinkedNicknames, n2 \in LinkedNicknames}

\* a messageCreate event's message: member 0 is an unresolved message.member,
\* mention 0 no mentioned member
Message(authorBot, channelId, content, member, mention) ==
    [authorBot |-> authorBot, channelId |-> channelId, content |-> content,
     member |-> member, mention |-> mention]
cVerifyTom == <<"!", "v", "e", "r", "i", "f", "y", " ", "T", "o", "m">>
cVerifyUTom ==
    <<" ", " ", "!", "v", "e", "r", "i", "f", "y", " ", " ", "u", "/", "T", "O", "M", " ">>
\* !verify messages in the verify channel from a resolved member
VerifyMessages ==
    {Message(FALSE, VERIFY_CHANNEL_ID, cVerifyTom, 1, 0),
     Message(FALSE, VERIFY_CHANNEL_ID, cVerifyTom, 2, 0),
     Message(FALSE, VERIFY_CHANNEL_ID, cVerifyUTom, 1, 0)}
\* the other messages: unresolved member, no argument, chat, !reddit, other channels, a bot
OtherMessages ==
    {Message(FALSE, VERIFY_CHANNEL_ID, cVerifyTom, 0, 0),
     Message(FALSE, VERIFY_CHANNEL_ID, VerifyCommand, 1, 0),
     Message(FALSE, VERIFY_CHANNEL_ID, <<"h", "i">>, 1, 0),
     Message(FALSE, VERIFY_CHANNEL_ID, RedditCommand, 1, 2),
     Message(FALSE, OTHER_CHANNEL_ID, RedditCommand, 0, 0),
     Message(FALSE, OTHER_CHANNEL_ID, cVerifyTom, 1, 0),
     Message(FALSE, MODMAIL_CHANNEL_ID, cVerifyTom, 1, 0),
     Message(TRUE, VERIFY_CHANNEL_ID, cVerifyTom, 1, 0),
     Message(TRUE, VERIFY_CHANNEL_ID, <<"h", "i">>, 1, 0),
     Message(TRUE, OTHER_CHANNEL_ID, RedditCommand, 1, 2)}

\* !reddit of oneself and of a mentioned member
RedditMessages ==
    {Message(FALSE, OTHER_CHANNEL_ID, RedditCommand, 1, 0),
     Message(FALSE, OTHER_CHANNEL_ID, RedditCommand, 1, 2),
     Message(FALSE, VERIFY_CHANNEL_ID, <<" ", "!", "R", "e", "d", "d", "i", "t">>, 2, 1)}

NewAttempt(message) ==
    [pc |-> "new", msg |-> message, pending |-> NoCall, redditNameInput |-> <<>>,
     cutoff |-> 0, lastId |-> 0, scanned |-> 0, inspected |-> <<>>, scanDone |-> FALSE,
     match |-> NoMatch,
     calls |-> <<>>, uncaught |-> FALSE]

Attempts == {1}

\* a short history with a !verify; linked members with a !reddit; a history of at most
\* one message with another message; or a long history with a !verify of member 1
Init ==
    /\ clock \in Clocks
    /\ \/ /\ modmail \in ShortHistories(clock)
          /\ members \in MemberSets
          /\ att \in [Attempts -> {NewAttempt(m) : m \in VerifyMessages}]
       \/ /\ modmail = <<>>
          /\ members \in LinkedMemberSets
          /\ att \in [Attempts -> {NewAttempt(m) : m \in RedditMessages}]
       \/ /\ modmail \in SingleHistories(clock) \cup {<<>>}
          /\ members \in MemberSets
          /\ att \in [Attempts -> {NewAttempt(m) : m \in OtherMessages}]
       \/ /\ modmail \in LongHistories(clock)
          /\ members = <<Member(sBo, sBob), Member(sAl, <<>>)>>
          /\ att = [a \in Attempts |-> NewAttempt(Message(FALSE, VERIFY_CHANNEL_ID, cVerifyTom, 1, 0))]

Next ==
    \E a \in Attempts :
        \/ MessageCreate(a)
        \/ DeleteSettles(a)
        \/ RedditReplySettles(a)
        \/ GuildFetchSettles(a)
        \/ ChannelFetchSettles(a)
        \/ SearchingReplySettles(a)
        \/ FetchSettles(a)
        \/ RolesAddSettles(a)
        \/ SetNicknameSettles(a)
        \/ ReplySettles(a)
        \/ ErrorReplySettles(a)

Spec == Init /\ [][Next]_vars

(***************************************************************************)
(* Two messageCreate events of one member with the same claimed name: the  *)
(* handler runs once for each, and the awaits of the two runs interleave.  *)
(* Time passes between the steps, so the two scans may start at different  *)
(* times.                                                                  *)
(***************************************************************************)
MaxElapsed == 2
ConcurrentAttempts == {1, 2}

\* two messages: the newer just sent or at the edge of the window, the older at the
\* edge or outside
ConcurrentHistories(now) ==
    {h \in {<<Run(At(t1, now - a1), 1), Run(At(t2, now - a2), 1)>> :
              t1 \in {TextGlobal, TextChat}, t2 \in {TextActive, TextChat},
              a1 \in {1, LookbackMs - 1}, a2 \in {LookbackMs - 1, LookbackMs + 1}} :
        NewestFirst(h)}

\* Date.now() has moved on
ClockAdvances ==
    /\ clock \in Clocks
    /\ clock' = clock + MaxElapsed
    /\ UNCHANGED <<modmail, members, att>>

InitConcurrent ==
    /\ clock \in Clocks
    /\ modmail \in ConcurrentHistories(clock)
    /\ members = <<Member(sBo, sBob), Member(sAl, <<>>)>>
    /\ \E c \in {cVerifyTom, cVerifyUTom} :
           att = <<NewAttempt(Message(FALSE, VERIFY_CHANNEL_ID, cVerifyTom, 1, 0)),
                   NewAttempt(Message(FALSE, VERIFY_CHANNEL_ID, c, 1, 0))>>

\* the steps of handleVerifyCommand for either event (no !reddit and no message to
\* delete among the two)
NextConcurrent ==
    \/ ClockAdvances
    \/ \E a \in ConcurrentAttempts :
        \/ MessageCreate(a)
        \/ GuildFetchSettles(a)
        \/ ChannelFetchSettles(a)
        \/ SearchingReplySettles(a)
        \/ FetchSettles(a)
        \/ RolesAddSettles(a)
        \/ SetNicknameSettles(a)
        \/ ReplySettles(a)
        \/ ErrorReplySettles(a)

SpecConcurrent == InitConcurrent /\ [][NextConcurrent]_vars

(***************************************************************************)
(* A !verify of a member and a !reddit of the same member about itself, in *)
(* any order of their steps.  The forward names the member under a reddit  *)
(* name that is plain, begins with u/ or contains '|'; the member types    *)
(* the name after a u/.                                                    *)
(***************************************************************************)
RoundTripNames ==
    {sTom, <<"u", "/", "T", "o", "m">>, <<"U", "/", "A", "n", "n">>, <<"T", "o", "|", "m">>}

InitRoundTrip ==
    /\ clock \in Clocks
    /\ members = <<Member(sBo, sBob), Member(sAl, <<>>)>>
    /\ \E name \in RoundTripNames :
           /\ modmail = <<Run(At(Forward(<<>>, name, sVerifyBo, sActive), clock - 1), 1)>>
           /\ att = <<NewAttempt(Message(FALSE, VERIFY_CHANNEL_ID,
                                         VerifyCommand \o <<" ">> \o UserPrefix \o name, 1, 0)),
                      NewAttempt(Message(FALSE, OTHER_CHANNEL_ID, RedditCommand, 1, 0))>>

\* the steps of the two handlers (no message to delete among the two)
NextRoundTrip ==
    \E a \in DOMAIN att :
        \/ MessageCreate(a)
        \/ RedditReplySettles(a)
        \/ GuildFetchSettles(a)
        \/ ChannelFetchSettles(a)
        \/ SearchingReplySettles(a)
        \/ FetchSettles(a)
        \/ RolesAddSettles(a)
        \/ SetNicknameSettles(a)
        \/ ReplySettles(a)
        \/ ErrorReplySettles(a)

SpecRoundTrip == InitRoundTrip /\ [][NextRoundTrip]_vars

\* every await modmailChannel.messages.fetch(...) settles, fulfilled or rejected
FetchReturns == \A a \in Attempts : WF_vars(FetchSettles(a))

\* the verifier when every page fetch returns
SpecFetchReturns == Spec /\ FetchReturns

(***************************************************************************)
(* src/index.js, the watch-channel linker: its text helpers.  A message of *)
(* the watch channel has content and embeds (title, description, fields).  *)
(***************************************************************************)

\* the parts pushed for the fields of one embed: each name and each value that is set
RECURSIVE FieldParts(_)
FieldParts(fields) ==
    IF fields = <<>> THEN <<>>
    ELSE (IF Head(fields).name # <<>> THEN <<Head(fields).name>> ELSE <<>>)
         \o (IF Head(fields).value # <<>> THEN <<Head(fields).value>> ELSE <<>>)
         \o FieldParts(Tail(fields))

\* the parts pushed for the embeds, in order
RECURSIVE TextParts(_)
TextParts(embeds) ==
    IF embeds = <<>> THEN <<>>
    ELSE (IF Head(embeds).title # <<>> THEN <<Head(embeds).title>> ELSE <<>>)
         \o (IF Head(embeds).description # <<>> THEN <<Head(embeds).description>> ELSE <<>>)
         \o FieldParts(Head(embeds).fields)
         \o TextParts(Tail(embeds))

\* getMessageText(message)
getMessageText(message) ==
    Join((IF message.content # <<>> THEN <<message.content>> ELSE <<>>)
         \o TextParts(message.embeds), <<"\n">>)

\* /\[([^\]]+)\]\([^)]*\)/ with its "[" at index i and its first "]" at index k (0:
\* none): the index of its ")", 0 when it does not match at i
LinkEndFrom(s, i, k) ==
    IF k < i + 2 \/ k + 1 > Len(s) THEN 0
    ELSE IF s[k + 1] # "(" THEN 0
    ELSE IndexOfChar(s, ")", k + 2)
LinkEndAt(s, i) == IF s[i] # "[" THEN 0 ELSE LinkEndFrom(s, i, IndexOfChar(s, "]", i + 1))

\* .replace(/\[([^\]]+)\]\([^)]*\)/g, '$1') from index i on
RECURSIVE ReplaceLinks(_, _)
ReplaceLinks(s, i) ==
    IF i > Len(s) THEN <<>>
    ELSE IF LinkEndAt(s, i) # 0
    THEN SubSeq(s, i + 1, IndexOfChar(s, "]", i + 1) - 1) \o ReplaceLinks(s, LinkEndAt(s, i) + 1)
    ELSE <<s[i]>> \o ReplaceLinks(s, i + 1)

\* .replace(/\*\*/g, '')
RECURSIVE RemoveBold(_)
RemoveBold(s) ==
    IF s = <<>> THEN <<>>
    ELSE IF Len(s) >= 2 /\ s[1] = "*" /\ s[2] = "*" THEN RemoveBold(SubSeq(s, 3, Len(s)))
    ELSE <<Head(s)>> \o RemoveBold(Tail(s))

\* .replace(/`/g, ''); the character ` is written "BACKTICK"
NotBacktick(c) == c # "BACKTICK"
RemoveBackticks(s) == SelectSeq(s, NotBacktick)

\* stripFormatting(text)
stripFormatting(text) ==
    IF text = <<>> THEN <<>> ELSE Trim(RemoveBackticks(RemoveBold(ReplaceLinks(text, 1))))

(***************************************************************************)
(* src/index.js: the regular expressions of the MessageCreate handler.     *)
(***************************************************************************)
ParticipantLabel == <<"p", "a", "r", "t", "i", "c", "i", "p", "a", "n", "t", ":">>
VerifyPhrase == <<"v", "e", "r", "i", "f", "y", " ", "d", "i", "s", "c", "o", "r", "d", ":">>
RegisterPhrase ==
    <<"r", "e", "g", "i", "s", "t", "e", "r", " ", "d", "i", "s", "c", "o", "r", "d",
      " ", "w", "i", "t", "h", " ", "d", "i", "s", "c", "o", "r", "d", " ", "i", "d",
      ":">>
DefaultRedditUser == <<"R", "e", "d", "d", "i", "t", "U", "s", "e", "r">>

\* the class [\n\r]
IsLineBreak(c) == c \in {"\n", "\r"}

\* first index at or after i that is a line break (Len(s) + 1 if none): [^\n\r]+
RECURSIVE LineEnd(_, _)
LineEnd(s, i) == IF i <= Len(s) /\ ~IsLineBreak(s[i]) THEN LineEnd(s, i + 1) ELSE i

\* last index in lo..hi that is no line break, 0 if none
RECURSIVE LastInLine(_, _, _)
LastInLine(s, lo, hi) ==
    IF hi < lo THEN 0 ELSE IF ~IsLineBreak(s[hi]) THEN hi ELSE LastInLine(s, lo, hi - 1)

\* the capture when \s* ran to the end of s from index i: \s* gives characters back
\* until [^\n\r]+ can take one
GivenBack(s, k) == IF k = 0 THEN <<>> ELSE <<s[k]>>

\* \s*([^\n\r]+) at index i, \s* having stopped at index q: the capture, <<>> when
\* it does not match
RestFrom(s, i, q) ==
    IF q <= Len(s) THEN SubSeq(s, q, LineEnd(s, q) - 1)
    ELSE GivenBack(s, LastInLine(s, i, Len(s)))
RestOfLine(s, i) == RestFrom(s, i, SkipSpaces(s, i))

\* /label\s*([^\n\r]+)/i anchored at index i
LabelMatchAt(s, label, i) ==
    IF WordAt(s, i, label) THEN RestOfLine(s, i + Len(label)) ELSE <<>>

\* content.match(/label\s*([^\n\r]+)/i)[1]: the capture of the leftmost match, <<>>
\* when there is none
RECURSIVE LabelMatchFrom(_, _, _)
LabelMatchFrom(s, label, i) ==
    IF i > Len(s) THEN <<>>
    ELSE FirstMatch(LabelMatchAt(s, label, i), LabelMatchFrom(s, label, i + 1))

\* \s*([^\s]+) at index i: the captured token, <<>> when it does not match
TokenAt(s, i) == SubSeq(s, SkipSpaces(s, i), SkipNonSpaces(s, SkipSpaces(s, i)) - 1)

\* phrase\s*([^\s]+) at index i
PhraseTokenAt(s, phrase, i) ==
    IF WordAt(s, i, phrase) THEN TokenAt(s, i + Len(phrase)) ELSE <<>>

\* /Body:\s*phrase\s*([^\s]+)/i anchored at index i
BodyPhraseAt(s, phrase, i) ==
    IF WordAt(s, i, BodyLabel) THEN PhraseTokenAt(s, phrase, SkipSpaces(s, i + Len(BodyLabel)))
    ELSE <<>>

\* content.match(/Body:\s*phrase\s*([^\s]+)/i)[1], <<>> when there is no match
RECURSIVE BodyPhraseFrom(_, _, _)
BodyPhraseFrom(s, phrase, i) ==
    IF i > Len(s) THEN <<>>
    ELSE FirstMatch(BodyPhraseAt(s, phrase, i), BodyPhraseFrom(s, phrase, i + 1))

\* statusMatch && statusMatch[1].trim().toLowerCase().includes('banned')
LinkerStatusBanned(content) ==
    Includes(ToLower(Trim(LabelMatchFrom(content, StatusLabel, 1))), BannedMarker)

\* the name of the Author line, <<>> (null) without one
AuthorUser(authorMatch) == IF authorMatch # <<>> THEN Trim(authorMatch) ELSE <<>>

\* redditUser: the Participant line if there is one, else the Author line
RedditUserOf(participantMatch, content) ==
    IF participantMatch # <<>> THEN Trim(participantMatch)
    ELSE AuthorUser(LabelMatchFrom(content, AuthorLabel, 1))

\* content.match(/^([^\n\r]+)/)[1].trim(), <<>> (null) when there is no match
FallbackRedditUser(content) == Trim(SubSeq(content, 1, LineEnd(content, 1) - 1))

\* redditUser || fallbackRedditUser || 'RedditUser'
FinalRedditUser(content) ==
    FirstMatch(RedditUserOf(LabelMatchFrom(content, ParticipantLabel, 1), content),
               FirstMatch(FallbackRedditUser(content), DefaultRedditUser))

\* discordName: the Verify capture, else the Register capture, else <<>> (null)
LinkerDiscordName(content) ==
    FirstMatch(BodyPhraseFrom(content, VerifyPhrase, 1),
               BodyPhraseFrom(content, RegisterPhrase, 1))

(***************************************************************************)
(* src/index.js: the MessageCreate handler, one action per await.  An      *)
(* attempt is one event of the handler; its pc is the await it stands at.  *)
(* members[m].cached is membership of guild.members.cache.                 *)
(***************************************************************************)
WATCH_CHANNEL_ID == "watch"

\* the predicate of both find calls
NameEquals(m, discordName) ==
    \/ ToLower(m.username) = ToLower(discordName)
    \/ (DisplayName(m) # <<>> /\ ToLower(DisplayName(m)) = ToLower(discordName))

\* guild.members.cache.find(...): the first cached member with the name, 0 (null)
\* if none; the cache is in member order
CacheFind(discordName) ==
    LET hits == {m \in DOMAIN members : members[m].cached /\ NameEquals(members[m], discordName)}
    IN  IF hits = {} THEN 0 ELSE CHOOSE m \in hits : \A n \in hits : m <= n

\* guild.members.fetch({ query, limit: 10 }): the members whose username or nickname
\* starts with the query, letter case ignored
Fetched(query) ==
    {m \in DOMAIN members :
        \/ StartsWith(ToLower(members[m].username), ToLower(query))
        \/ (members[m].nickname # <<>> /\ StartsWith(ToLower(members[m].nickname), ToLower(query)))}

\* fetched.find(...): the fetched members one of which is found, in whatever order
\* the collection has
FetchedExact(fetched, discordName) == {m \in fetched : NameEquals(members[m], discordName)}

\* const newNick = `${finalRedditUser} | ${discordName}`
LinkerNick(finalRedditUser, discordName) == finalRedditUser \o NickSeparator \o discordName

\* the handler returns
LinkerReturn(a, base) == att' = [att EXCEPT ![a] = [base EXCEPT !.pc = "done"]]

\* targetMember is set: the role lookup, and on to roles.add or setNickname
LinkerOnTarget(a, base, targetMember) ==
    IF ~base.msg.roleCached
    THEN LinkerReturn(a, [base EXCEPT !.targetMember = targetMember])
    ELSE IF ~members[targetMember].role
    THEN att' = [att EXCEPT ![a] = [base EXCEPT !.pc = "awaitRolesAdd",
                                                !.targetMember = targetMember]]
    ELSE att' = [att EXCEPT ![a] =
                   [base EXCEPT !.pc = "awaitSetNickname", !.targetMember = targetMember,
                                !.pending = LinkerNick(base.finalRedditUser, base.discordName)]]

\* no targetMember: the reply that none was found
LinkerNotFound(a, base) ==
    att' = [att EXCEPT ![a] = [base EXCEPT !.pc = "awaitNotFoundReply",
                                           !.pending = Reply("notFound", <<base.discordName>>)]]

\* the cache lookup, and the fetch when it finds nothing
LinkerLookup(a, base, cachedMember) ==
    IF cachedMember # 0 THEN LinkerOnTarget(a, base, cachedMember)
    ELSE att' = [att EXCEPT ![a] = [base EXCEPT !.pc = "awaitMembersFetch"]]

\* both names are parsed
LinkerOnNames(a, finalRedditUser, discordName) ==
    IF discordName = <<>> THEN LinkerReturn(a, att[a])
    ELSE LinkerLookup(a, [att[a] EXCEPT !.finalRedditUser = finalRedditUser,
                                        !.discordName = discordName],
                      CacheFind(discordName))

\* the stripped text is at hand
LinkerOnContent(a, content) ==
    IF LinkerStatusBanned(content) THEN LinkerReturn(a, att[a])
    ELSE LinkerOnNames(a, FinalRedditUser(content), LinkerDiscordName(content))

\* client.on(Events.MessageCreate): the handler up to its first await
LinkerMessageCreate(a) ==
    /\ att[a].pc = "new"
    /\ IF \/ ~att[a].msg.inGuild
          \/ att[a].msg.channelId # WATCH_CHANNEL_ID
          \/ att[a].msg.authorSelf
       THEN LinkerReturn(a, att[a])
       ELSE LinkerOnContent(a, stripFormatting(getMessageText(att[a].msg)))
    /\ UNCHANGED <<modmail, members, clock>>

\* the fetched collection is at hand: the exact find, else the first member
LinkerOnFetched(a, base, fetched, exact) ==
    IF exact # {} THEN \E m \in exact : LinkerOnTarget(a, base, m)
    ELSE IF fetched # {} THEN \E m \in fetched : LinkerOnTarget(a, base, m)
    ELSE LinkerNotFound(a, base)

\* await guild.members.fetch({ query: discordName, limit: 10 }) settles; a rejection
\* is caught and logged
LinkerMembersFetchSettles(a) ==
    /\ att[a].pc = "awaitMembersFetch"
    /\ \E ok \in BOOLEAN :
         IF ~ok THEN LinkerNotFound(a, Logged(a, "members.fetch", att[a].discordName, ok))
         ELSE LinkerOnFetched(a, Logged(a, "members.fetch", att[a].discordName, ok),
                              Fetched(att[a].discordName),
                              FetchedExact(Fetched(att[a].discordName), att[a].discordName))
    /\ UNCHANGED <<modmail, members, clock>>

\* await targetMember.roles.add(role, ...) settles; a rejection is caught and logged
LinkerRolesAddSettles(a) ==
    /\ att[a].pc = "awaitRolesAdd"
    /\ \E ok \in BOOLEAN :
         /\ att' = [att EXCEPT ![a] =
                      [Logged(a, "roles.add", att[a].targetMember, ok) EXCEPT
                          !.pc = "awaitSetNickname",
                          !.pending = LinkerNick(att[a].finalRedditUser, att[a].discordName)]]
         /\ members' = IF ok THEN [members EXCEPT ![att[a].targetMember].role = TRUE]
                       ELSE members
    /\ UNCHANGED <<modmail, clock>>

\* await targetMember.setNickname(newNick, ...) settles; a rejection is caught and
\* logged; then the reply
LinkerSetNicknameSettles(a) ==
    /\ att[a].pc = "awaitSetNickname"
    /\ \E ok \in BOOLEAN :
         /\ att' = [att EXCEPT ![a] =
                      [Logged(a, "setNickname", att[a].pending, ok) EXCEPT
                          !.pc = "awaitReply",
                          !.pending = Reply("linked", <<att[a].finalRedditUser,
                                                        members[att[a].targetMember].username>>)]]
         /\ members' = IF ok THEN [members EXCEPT ![att[a].targetMember].nickname = att[a].pending]
                       ELSE members
    /\ UNCHANGED <<modmail, clock>>

\* await message.reply(`I couldn't find a member ...`).catch(() => {}) settles
LinkerNotFoundReplySettles(a) ==
    /\ att[a].pc = "awaitNotFoundReply"
    /\ \E ok \in BOOLEAN :
         LinkerReturn(a, [Logged(a, "reply", att[a].pending, ok) EXCEPT !.pending = NoCall])
    /\ UNCHANGED <<modmail, members, clock>>

\* await message.reply(`... Linked Reddit ...`).catch(() => {}) settles
LinkerReplySettles(a) ==
    /\ att[a].pc = "awaitReply"
    /\ \E ok \in BOOLEAN :
         LinkerReturn(a, [Logged(a, "reply", att[a].pending, ok) EXCEPT !.pending = NoCall])
    /\ UNCHANGED <<modmail, members, clock>>

(***************************************************************************)
(* The inputs of the linker: forwards posted to the watch channel, and the *)
(* guild's members.                                                        *)
(***************************************************************************)
LinkerMessage(inGuild, channelId, authorSelf, roleCached, content, embeds) ==
    [inGuild |-> inGuild, channelId |-> channelId, authorSelf |-> authorSelf,
     roleCached |-> roleCached, content |-> content, embeds |-> embeds]
Embed(title, description, fields) ==
    [title |-> title, description |-> description, fields |-> fields]

\* Author: Tom / Body: Verify Discord: bo / Status: Active
cForwardBo ==
    <<"A", "u", "t", "h", "o", "r", ":", " ", "T", "o", "m", "\n", "B", "o", "d", "y",
      ":", " ", "V", "e", "r", "i", "f", "y", " ", "D", "i", "s", "c", "o", "r", "d",
      ":", " ", "b", "o", "\n", "S", "t", "a", "t", "u", "s", ":", " ", "A", "c", "t",
      "i", "v", "e">>
\* a claim for the name b, which no member has and the username bo starts with
cForwardB ==
    <<"A", "u", "t", "h", "o", "r", ":", " ", "T", "o", "m", "\n", "B", "o", "d", "y",
      ":", " ", "V", "e", "r", "i", "f", "y", " ", "D", "i", "s", "c", "o", "r", "d",
      ":", " ", "b", "\n", "S", "t", "a", "t", "u", "s", ":", " ", "A", "c", "t", "i",
      "v", "e">>
\* a claim for the global name, with a Participant line before the Author line
cForwardBob ==
    <<"P", "a", "r", "t", "i", "c", "i", "p", "a", "n", "t", ":", " ", "A", "n", "n",
      "\n", "A", "u", "t", "h", "o", "r", ":", " ", "T", "o", "m", "\n", "B", "o", "d",
      "y", ":", " ", "v", "e", "r", "i", "f", "y", " ", "d", "i", "s", "c", "o", "r",
      "d", ":", "B", "O", "B">>
\* a claim for a name no member has or starts with
cForwardZed ==
    <<"A", "u", "t", "h", "o", "r", ":", " ", "T", "o", "m", "\n", "B", "o", "d", "y",
      ":", " ", "V", "e", "r", "i", "f", "y", " ", "D", "i", "s", "c", "o", "r", "d",
      ":", " ", "z", "e", "d", "\n", "S", "t", "a", "t", "u", "s", ":", " ", "A", "c",
      "t", "i", "v", "e">>
\* a banned author, the status behind another word
cForwardBanned ==
    <<"A", "u", "t", "h", "o", "r", ":", " ", "T", "o", "m", "\n", "B", "o", "d", "y",
      ":", " ", "V", "e", "r", "i", "f", "y", " ", "D", "i", "s", "c", "o", "r", "d",
      ":", " ", "b", "o", "\n", "S", "t", "a", "t", "u", "s", ":", " ", "M", "u", "t",
      "e", "d", ":", " ", "B", "A", "N", "N", "E", "D">>
\* no Body line
cNoBody == <<"A", "u", "t", "h", "o", "r", ":", " ", "T", "o", "m">>
\* the description of an embed, with markdown: the first line names the author
dForwardAl ==
    <<"[", "*", "*", "T", "o", "m", "*", "*", "]", "(", "h", "t", "t", "p", "s", ":",
      "/", "/", "r", "/", "u", ")", "\n", "*", "*", "B", "o", "d", "y", ":", "*", "*",
      " ", "R", "e", "g", "i", "s", "t", "e", "r", " ", "D", "i", "s", "c", "o", "r",
      "d", " ", "w", "i", "t", "h", " ", "D", "i", "s", "c", "o", "r", "d", " ", "I",
      "D", ":", " ", "BACKTICK", "a", "l", "BACKTICK">>

LinkerForwards ==
    {LinkerMessage(TRUE, WATCH_CHANNEL_ID, FALSE, TRUE, c, <<>>) :
        c \in {cForwardBo, cForwardB, cForwardBob, cForwardZed, cForwardBanned, cNoBody}}
    \cup {LinkerMessage(TRUE, WATCH_CHANNEL_ID, FALSE, TRUE, <<>>,
                        <<Embed(<<>>, dForwardAl, <<Field(sStatus, sActive)>>)>>)}
\* the messages the guards turn away, and a guild whose role cache lacks the role
LinkerOthers ==
    {LinkerMessage(FALSE, WATCH_CHANNEL_ID, FALSE, TRUE, cForwardBo, <<>>),
     LinkerMessage(TRUE, OTHER_CHANNEL_ID, FALSE, TRUE, cForwardBo, <<>>),
     LinkerMessage(TRUE, WATCH_CHANNEL_ID, TRUE, TRUE, cForwardBo, <<>>),
     LinkerMessage(TRUE, WATCH_CHANNEL_ID, FALSE, FALSE, cForwardBo, <<>>)}

LinkerMember(username, globalName, nickname, role, cached) ==
    [username |-> username, globalName |-> globalName, nickname |-> nickname, role |-> role,
     cached |-> cached]
sZed == <<"Z", "e", "d">>
\* bo, with or without a global name, the role and a place in the cache; al, cached,
\* with or without a nickname
LinkerMemberSets ==
    {<<LinkerMember(sBo, g, <<>>, r, c), LinkerMember(sAl, <<>>, n, FALSE, TRUE)>> :
        g \in {sBob, <<>>}, r \in BOOLEAN, c \in BOOLEAN, n \in {sZed, <<>>}}

NewLink(message) ==
    [pc |-> "new", msg |-> message, pending |-> NoCall, finalRedditUser |-> <<>>,
     discordName |-> <<>>, targetMember |-> 0, calls |-> <<>>]

InitLinker ==
    /\ clock \in Clocks
    /\ modmail = <<>>
    /\ members \in LinkerMemberSets
    /\ att \in [Attempts -> {NewLink(m) : m \in LinkerForwards \cup LinkerOthers}]

NextLinker ==
    \E a \in Attempts :
        \/ LinkerMessageCreate(a)
        \/ LinkerMembersFetchSettles(a)
        \/ LinkerRolesAddSettles(a)
        \/ LinkerSetNicknameSettles(a)
        \/ LinkerNotFoundReplySettles(a)
        \/ LinkerReplySettles(a)

SpecLinker == InitLinker /\ [][NextLinker]_vars

(***************************************************************************)
(* What the properties speak of, stated apart from the handler's own       *)
(* conditions.                                                             *)
(***************************************************************************)
AttemptIds == DOMAIN att

\* equal after trim and lower-case on both sides
SameIgnoringCase(x, y) == ToLower(Trim(x)) = ToLower(Trim(y))

\* the banned marker, in any letter case, somewhere in s
ContainsBanned(s) == \E i \in 1..(Len(s) - 5) : ToLower(SubSeq(s, i, i + 5)) = BannedMarker

\* the member that sent the attempt's message
Invoker(a) == members[att[a].msg.member]

\* the record names the attempt's reddit name and one of the invoker's names
IdentitiesMatch(parsed, a) ==
    /\ ~parsed.isNull
    /\ SameIgnoringCase(parsed.redditName, att[a].redditNameInput)
    /\ \/ SameIgnoringCase(parsed.discordName, Invoker(a).username)
       \/ /\ Invoker(a).globalName # <<>>
          /\ SameIgnoringCase(parsed.discordName, Invoker(a).globalName)

\* the record passes the banned, external-identity and local-identity checks
Passes(parsed, a) == IdentitiesMatch(parsed, a) /\ ~ContainsBanned(parsed.status)

ParsedOf(msg) == parseModmailMessageFromFullText(buildFullTextFromMessage(msg))

\* the cutoff of a scan: the lookback before now
WindowStart == clock - LookbackMs

\* ids of the first and last message of run r
RECURSIVE RunFirst(_, _)
RunFirst(h, r) == IF r = 1 THEN 1 ELSE RunFirst(h, r - 1) + h[r - 1].n
RunLast(h, r) == RunFirst(h, r) + h[r].n - 1
MinOf(x, y) == IF x < y THEN x ELSE y
TimeOf(i) == MsgAt(modmail, i).createdTimestamp

\* ids inside the lookback window and within the scan cap
ScannableIds(r) ==
    IF modmail[r].msg.createdTimestamp >= WindowStart
    THEN RunFirst(modmail, r)..MinOf(RunLast(modmail, r), MAX_SCANNED)
    ELSE {}

\* ids inside the window and the cap whose record passes all three checks
PassingIds(a) ==
    UNION {IF Passes(ParsedOf(modmail[r].msg), a) THEN ScannableIds(r) ELSE {} :
             r \in 1..Len(modmail)}

\* ids inside the window and the cap whose record names the claimed identities
IdentityIds(a) ==
    UNION {IF IdentitiesMatch(ParsedOf(modmail[r].msg), a) THEN ScannableIds(r) ELSE {} :
             r \in 1..Len(modmail)}

\* id of the first message strictly older than the cutoff, past the end if none
OldRuns == {r \in 1..Len(modmail) : modmail[r].msg.createdTimestamp < WindowStart}
FirstOld ==
    IF OldRuns = {} THEN HistoryLen(modmail) + 1
    ELSE RunFirst(modmail, CHOOSE r \in OldRuns : \A q \in OldRuns : r <= q)

\* the settled calls of an attempt with a given operation
CallsOf(a, op) == {k \in 1..Len(att[a].calls) : att[a].calls[k].op = op}
InspectedIds(a) == {att[a].inspected[k] : k \in 1..Len(att[a].inspected)}

\* findMatchingModmail has just returned to handleVerifyCommand: the page fetch is
\* the last call that settled
Returned(a) ==
    /\ att[a].scanDone
    /\ att[a].calls[Len(att[a].calls)].op = "fetch"

\* the account an attempt acts upon: the linker's targetMember, the verifier's
\* invoking member
ActsOn(a) == IF "targetMember" \in DOMAIN att[a] THEN att[a].targetMember ELSE att[a].msg.member

\* the local name an attempt has found claimed, <<>> when it has found none: the
\* linker's discordName, the discordName of the verifier's match
LocalClaim(a) ==
    IF "discordName" \in DOMAIN att[a] THEN att[a].discordName
    ELSE IF att[a].match.found THEN att[a].match.parsed.discordName
    ELSE <<>>

\* the name is one of the account's own: username, global name or nickname
OwnName(name, m) ==
    \/ SameIgnoringCase(name, m.username)
    \/ (m.globalName # <<>> /\ SameIgnoringCase(name, m.globalName))
    \/ (m.nickname # <<>> /\ SameIgnoringCase(name, m.nickname))

\* the newest message inside the window that names the claimed identities
NewestIdentityId(a) == CHOOSE i \in IdentityIds(a) : \A j \in IdentityIds(a) : i <= j
NewestIsBanned(a) ==
    /\ IdentityIds(a) # {}
    /\ ContainsBanned(ParsedOf(MsgAt(modmail, NewestIdentityId(a))).status)

\* the candidate name of the invoker that the matched record names
MatchedName(a) ==
    IF SameIgnoringCase(att[a].match.parsed.discordName, Invoker(a).username)
    THEN Invoker(a).username
    ELSE Invoker(a).globalName

\* the matched record's reddit name and the invoker's username
UsernameNick(a) == att[a].match.parsed.redditName \o <<" ", "|", " ">> \o Invoker(a).username

\* the settled role grants that were rejected, and whether a rename was rejected
FailedRoleGrants(a) == {k \in CallsOf(a, "roles.add") : ~att[a].calls[k].ok}
RenameFailed(a) == \E k \in CallsOf(a, "setNickname") : ~att[a].calls[k].ok

\* the replies that tell the user the link was made
SuccessKinds == {"success", "linked"}

\* the reply sent when role grant and rename both succeeded
FullSuccessReply(a) ==
    Reply("success", <<att[a].match.parsed.redditName, Invoker(a).username,
                       ProfileUrlPrefix \o att[a].match.parsed.redditName,
                       att[a].match.parsed.discordName>>)

\* the text after the first ':' of the message's status line, <<>> without such a line
AfterFirstColon(line) == SubSeq(line, IndexOfChar(line, ":", 1) + 1, Len(line))
StatusLineRest(msg) ==
    AfterFirstColon(FindLine(TrimmedNonEmpty(Split(buildFullTextFromMessage(msg), "\n")),
                             StatusLabel))

(***************************************************************************)
(* C1  Whenever findMatchingModmail returns a match, the returned record   *)
(* is not banned, its redditName equals the !verify input after trim and   *)
(* lower-case, and its discordName equals, after trim and lower-case, the  *)
(* invoking member's username or non-empty globalName.                     *)
(***************************************************************************)
C1_MatchSatisfiesAll ==
    \A a \in AttemptIds :
        att[a].match.found =>
            /\ ~ContainsBanned(att[a].match.parsed.status)
            /\ SameIgnoringCase(att[a].match.parsed.redditName, att[a].redditNameInput)
            /\ \/ SameIgnoringCase(att[a].match.parsed.discordName, Invoker(a).username)
               \/ /\ Invoker(a).globalName # <<>>
                  /\ SameIgnoringCase(att[a].match.parsed.discordName, Invoker(a).globalName)

\* a match through the global name only, in another letter case than the record's
C1_Witness ==
    \E a \in AttemptIds :
        /\ att[a].match.found
        /\ ~SameIgnoringCase(att[a].match.parsed.discordName, Invoker(a).username)
        /\ att[a].match.parsed.discordName # Invoker(a).globalName
        /\ att[a].match.parsed.redditName # att[a].redditNameInput

(***************************************************************************)
(* C2  If a message inside the lookback window and within the scan cap     *)
(* parses to a record that passes the three checks, findMatchingModmail    *)
(* returns the newest such message, never an older one and never null.     *)
(***************************************************************************)
C2_NewestPassingReturned ==
    \A a \in AttemptIds :
        (Returned(a) /\ PassingIds(a) # {}) =>
            /\ att[a].match.found
            /\ att[a].match.id \in PassingIds(a)
            /\ \A j \in PassingIds(a) : TimeOf(att[a].match.id) >= TimeOf(j)

\* two passing messages of different creation times, the newer one returned
C2_Witness ==
    \E a \in AttemptIds :
        /\ Returned(a)
        /\ att[a].match.found
        /\ \E j \in PassingIds(a) : TimeOf(j) < TimeOf(att[a].match.id)

(***************************************************************************)
(* C3  No role grant and no nickname change is performed on an account     *)
(* unless a match was found first whose local identity claim equals, letter*)
(* case ignored, one of that account's own names; an attempt that finds no *)
(* match calls neither.                                                    *)
(***************************************************************************)
C3_MutationOnlyAfterNameMatch ==
    \A a \in AttemptIds :
        /\ att[a].pc \in {"awaitRolesAdd", "awaitSetNickname"} =>
             /\ LocalClaim(a) # <<>>
             /\ OwnName(LocalClaim(a), members[ActsOn(a)])
        /\ LocalClaim(a) = <<>> =>
             CallsOf(a, "roles.add") \cup CallsOf(a, "setNickname") = {}

(***************************************************************************)
(* C4  When the newest in-window record for the claimed identities has a   *)
(* status containing 'banned', the attempt ends with the BannedStatus      *)
(* reply, distinct from the no-match reply, and performs no role or        *)
(* nickname mutation.                                                      *)
(***************************************************************************)
C4_BannedReplyAndNoMutation ==
    \A a \in AttemptIds :
        (Returned(a) /\ NewestIsBanned(a)) =>
            /\ att[a].pc = "awaitReply"
            /\ att[a].pending.kind = "banned"
            /\ ~Invoker(a).role
            /\ Invoker(a).nickname = <<>>

C6_RoleFailureIsFatal ==
    \A a \in AttemptIds :
        \A k \in FailedRoleGrants(a) :
            /\ att[a].pc # "awaitSetNickname"
            /\ \A j \in CallsOf(a, "setNickname") : j < k
            /\ ~(att[a].pc = "awaitReply" /\ att[a].pending.kind \in SuccessKinds)
            /\ \A j \in CallsOf(a, "reply") : j > k => att[a].calls[j].arg.kind \notin SuccessKinds
            /\ \/ att[a].pc = "awaitReply" /\ att[a].pending.kind = "roleFail"
               \/ \E j \in CallsOf(a, "reply") : j > k /\ att[a].calls[j].arg.kind = "roleFail"

(***************************************************************************)
(* C7  If the nickname change fails after the role was granted, the role   *)
(* stays granted, the attempt still ends as a success, and the reply is a  *)
(* partial success carrying the rename failure: it differs from the reply  *)
(* sent when role grant and rename both succeeded.                         *)
(***************************************************************************)
C7_RenameFailureReported ==
    \A a \in AttemptIds :
        RenameFailed(a) =>
            /\ Invoker(a).role
            /\ att[a].pc = "awaitReply" =>
                 (att[a].pending.kind = "success" /\ att[a].pending # FullSuccessReply(a))
            /\ \A k \in CallsOf(a, "reply") :
                 att[a].calls[k].arg.kind = "success" => att[a].calls[k].arg # FullSuccessReply(a)

(***************************************************************************)
(* C8  No message strictly older than the cutoff is parsed or returned;    *)
(* the scan stops at the first such message, inspecting no later message   *)
(* and fetching no further page.  A message created exactly at the cutoff  *)
(* is still inspected.                                                     *)
(***************************************************************************)
C8_StopsAtCutoff ==
    \A a \in AttemptIds :
        /\ \A i \in InspectedIds(a) : TimeOf(i) >= WindowStart /\ i < FirstOld
        /\ att[a].match.found => TimeOf(att[a].match.id) >= WindowStart
        /\ att[a].pc = "awaitFetch" => att[a].lastId < FirstOld
        /\ \A k \in CallsOf(a, "fetch") : att[a].calls[k].arg < FirstOld
        /\ Returned(a) =>
             \A i \in 1..MinOf(HistoryLen(modmail), MAX_SCANNED) :
                 (TimeOf(i) = WindowStart /\ (att[a].match.found => i <= att[a].match.id))
                     => i \in InspectedIds(a)

\* a scan that inspected a message created at the cutoff and stopped at an older one
C8_Witness ==
    \E a \in AttemptIds :
        /\ Returned(a)
        /\ ~att[a].match.found
        /\ \E i \in InspectedIds(a) : TimeOf(i) = WindowStart
        /\ FirstOld <= HistoryLen(modmail)
        /\ att[a].scanned = FirstOld

(***************************************************************************)
(* C9  In one scan at most MAX_SCANNED messages are inspected; a message   *)
(* that fails parsing counts toward the cap like one that parses; once the *)
(* cap is exceeded the scan returns no match.                              *)
(***************************************************************************)
C9_ScanCap ==
    \A a \in AttemptIds :
        /\ Len(att[a].inspected) <= MAX_SCANNED
        /\ Cardinality(InspectedIds(a)) = Len(att[a].inspected)
        /\ att[a].scanned >= Len(att[a].inspected)
        /\ att[a].scanned <= Len(att[a].inspected) + 1
        /\ att[a].scanned > MAX_SCANNED => (att[a].scanDone /\ ~att[a].match.found)
        /\ att[a].match.found => att[a].match.id <= MAX_SCANNED

\* the cap exceeded after MAX_SCANNED messages that do not parse
C9_Witness ==
    \E a \in AttemptIds :
        /\ att[a].scanned > MAX_SCANNED
        /\ Len(att[a].inspected) = MAX_SCANNED
        /\ ParsedOf(MsgAt(modmail, 1)).isNull
        /\ ~ParsedOf(MsgAt(modmail, MAX_SCANNED + 1)).isNull

(***************************************************************************)
(* C10  A forwarded record whose status line carries the banned marker     *)
(* anywhere after the first ':' of that line, in any letter case, is never *)
(* returned by findMatchingModmail.                                        *)
(***************************************************************************)
C10_BannedLineNeverReturned ==
    \A a \in AttemptIds :
        att[a].match.found => ~ContainsBanned(StatusLineRest(MsgAt(modmail, att[a].match.id)))

(***************************************************************************)
(* What the properties of the handlers' control flow speak of.             *)
(***************************************************************************)
\* the message is a user's message in the verify channel
InVerifyChannel(a) == ~att[a].msg.authorBot /\ att[a].msg.channelId = VERIFY_CHANNEL_ID

\* the message's content starts with the word, letter case and outer blanks ignored
ContentStarts(a, word) ==
    Len(ToLower(Trim(att[a].msg.content))) >= Len(word)
    /\ SubSeq(ToLower(Trim(att[a].msg.content)), 1, Len(word)) = word

\* the message is a !verify of a user in the verify channel
IsVerifyAttempt(a) == InVerifyChannel(a) /\ ContentStarts(a, VerifyCommand)

\* the settled calls of an attempt that were rejected, by operation
FailedCalls(a, op) == {k \in CallsOf(a, op) : ~att[a].calls[k].ok}

\* the guild, the modmail channel or the invoking member was found unresolved
Unresolved(a) ==
    \/ FailedCalls(a, "guilds.fetch") # {}
    \/ FailedCalls(a, "channels.fetch") # {}
    \/ (CallsOf(a, "channels.fetch") # {} /\ att[a].msg.member = 0)

\* the replies that tell the user a collaborator is unavailable
UnavailableKinds == {"noGuild", "badChannel", "noMember"}

\* a reply of one of the kinds is awaited or has settled
Replied(a, kinds) ==
    \/ (att[a].pc = "awaitReply" /\ att[a].pending.kind \in kinds)
    \/ \E k \in CallsOf(a, "reply") : att[a].calls[k].arg.kind \in kinds

\* the calls that change an account
Mutations(a) == CallsOf(a, "roles.add") \cup CallsOf(a, "setNickname")

\* the channel the forwarded modmail arrives in: WATCH_CHANNEL_ID of either program
ModmailChannels == {MODMAIL_CHANNEL_ID, WATCH_CHANNEL_ID}

(***************************************************************************)
(* C11  If the guild, the modmail channel or the invoking member cannot be *)
(* resolved, the attempt sends a user-visible message and aborts before    *)
(* any history page is fetched and before any role or nickname mutation.   *)
(***************************************************************************)
C11_UnresolvedAborts ==
    \A a \in AttemptIds :
        Unresolved(a) =>
            /\ Replied(a, UnavailableKinds)
            /\ att[a].pc \notin {"awaitSearchingReply", "awaitFetch", "awaitRolesAdd",
                                 "awaitSetNickname"}
            /\ CallsOf(a, "fetch") = {}
            /\ Mutations(a) = {}
            /\ ~att[a].scanDone

\* the reply for an unresolved member was sent, guild and channel having resolved
C11_Witness ==
    \E a \in AttemptIds :
        /\ att[a].msg.member = 0
        /\ FailedCalls(a, "guilds.fetch") = {} /\ FailedCalls(a, "channels.fetch") = {}
        /\ \E k \in CallsOf(a, "reply") :
             att[a].calls[k].arg.kind = "noMember" /\ att[a].calls[k].ok
        /\ att[a].pc = "done"

(***************************************************************************)
(* C12  No failure of a collaborator call made while handling one !verify  *)
(* message propagates uncaught out of the messageCreate handler, a failure *)
(* of the reply sent from the catch block included.                        *)
(***************************************************************************)
C12_NoUncaughtFailure ==
    \A a \in AttemptIds : IsVerifyAttempt(a) => ~att[a].uncaught

(***************************************************************************)
(* C13  A failure to send a reply never changes the result of an attempt:  *)
(* when a valid matching record exists and no call other than a reply      *)
(* failed, the finished attempt has granted the role, whether or not a     *)
(* reply (the searching notice included) failed.                           *)
(***************************************************************************)
C13_ReplyFailureChangesNothing ==
    \A a \in AttemptIds :
        (/\ att[a].pc = "done"
         /\ IsVerifyAttempt(a)
         /\ att[a].msg.member # 0
         /\ \A k \in 1..Len(att[a].calls) :
              att[a].calls[k].op # "reply" => att[a].calls[k].ok
         /\ PassingIds(a) # {})
            => Invoker(a).role

(***************************************************************************)
(* C14  Every message of a user in the verify channel whose content does   *)
(* not start with '!verify' gets a delete attempt, a message that starts   *)
(* with another command such as '!reddit' included.                        *)
(***************************************************************************)
C14_NonVerifyDeleted ==
    \A a \in AttemptIds :
        (att[a].pc = "done" /\ InVerifyChannel(a) /\ ~ContentStarts(a, VerifyCommand))
            => CallsOf(a, "delete") # {}

(***************************************************************************)
(* C15  A message whose channel is the modmail (watch) channel triggers no *)
(* reply, no deletion, no scan and no role or nickname mutation: the bot   *)
(* makes no call for it at all.                                            *)
(***************************************************************************)
C15_ModmailChannelUntouched ==
    \A a \in AttemptIds :
        att[a].msg.channelId \in ModmailChannels =>
            /\ att[a].calls = <<>>
            /\ att[a].pc \in {"new", "done"}

(***************************************************************************)
(* The two parsers as functions of a text: parseModmailMessageFromFullText *)
(* of the verifier and the statements of the linker's handler that read    *)
(* the status, the reddit user and the Discord name.  A text is built from *)
(* lines, each present or not.                                             *)
(***************************************************************************)
FirstLines ==
    {<<>>, sTom, <<"*", "*", "[", "T", "o", "m", "]", "(", "r", ")", "*", "*">>, <<"*", "*">>,
     <<" ">> \o LinkedRedditPrefix \o <<" ">> \o sTom,
     CouldntFindPrefix \o <<" ">> \o sBo}
ParticipantLines == {<<>>, <<"P", "a", "r", "t", "i", "c", "i", "p", "a", "n", "t", ":", " ", "A", "n", "n">>}
AuthorLines ==
    {<<>>, <<"A", "u", "t", "h", "o", "r", ":", " ", "T", "o", "m">>,
     <<"a", "u", "t", "h", "o", "r", ":", " ", " ", "*", "*", "T", "o", "m", "*", "*">>,
     <<"A", "u", "t", "h", "o", "r", ":">>}
BodyLines ==
    {<<>>, <<"B", "o", "d", "y", ":", " ", "V", "e", "r", "i", "f", "y", " ", "D", "i", "s",
       "c", "o", "r", "d", ":", " ", "b", "o">>,
     <<"B", "o", "d", "y", ":", " ", "R", "e", "g", "i", "s", "t", "e", "r", " ", "D",
       "i", "s", "c", "o", "r", "d", " ", "w", "i", "t", "h", " ", "D", "i", "s", "c",
       "o", "r", "d", " ", "I", "D", ":", " ", "b", "o">>,
     <<"B", "o", "d", "y", ":", " ", "h", "e", "l", "l", "o">>,
     <<"b", "o", "d", "y", ":", " ", "d", "i", "s", "c", "o", "r", "d", ":">>}
StatusLines == {<<>>, <<"S", "t", "a", "t", "u", "s", ":", " ", "O", "k">>}

IsPresent(line) == line # <<>>
ParserTexts ==
    {Join(SelectSeq(<<f, p, au, b, s>>, IsPresent), <<"\n">>) :
        f \in FirstLines, p \in ParticipantLines, au \in AuthorLines, b \in BodyLines,
        s \in StatusLines}

\* what the linker's handler reads from the stripped text
LinkerParseOf(content) ==
    [banned |-> LinkerStatusBanned(content), finalRedditUser |-> FinalRedditUser(content),
     discordName |-> LinkerDiscordName(content)]

NewText(fullText) ==
    [fullText |-> fullText, parsedDone |-> FALSE, parsed |-> NoRecord, linkerDone |-> FALSE,
     linker |-> LinkerParseOf(<<>>)]

\* const parsed = parseModmailMessageFromFullText(fullText)
ParseModmail(a) ==
    /\ ~att[a].parsedDone
    /\ att' = [att EXCEPT ![a].parsedDone = TRUE,
                          ![a].parsed = parseModmailMessageFromFullText(att[a].fullText)]
    /\ UNCHANGED <<modmail, members, clock>>

\* const content = stripFormatting(rawText), and the matches on it
LinkerParse(a) ==
    /\ ~att[a].linkerDone
    /\ att' = [att EXCEPT ![a].linkerDone = TRUE,
                          ![a].linker = LinkerParseOf(stripFormatting(att[a].fullText))]
    /\ UNCHANGED <<modmail, members, clock>>

InitParser ==
    /\ clock \in Clocks
    /\ modmail = <<>>
    /\ members = <<>>
    /\ att \in [Attempts -> {NewText(t) : t \in ParserTexts}]

NextParser == \E a \in Attempts : ParseModmail(a) \/ LinkerParse(a)

SpecParser == InitParser /\ [][NextParser]_vars

(***************************************************************************)
(* What the properties of the parsers speak of.                            *)
(***************************************************************************)
\* the lines of a text, trimmed, the empty ones left out
LinesOf(text) == TrimmedNonEmpty(Split(text, "\n"))

\* the first line that starts with the label (lower case), <<>> if none, and what
\* follows the label on it
LabelledLine(text, label) == FindLine(LinesOf(text), label)
LabelValue(text, label) ==
    Trim(SubSeq(LabelledLine(text, label), Len(label) + 1, Len(LabelledLine(text, label))))

\* the text has a Participant line and an Author line that name different values
NamesBoth(text) ==
    /\ LabelledLine(text, ParticipantLabel) # <<>>
    /\ LabelledLine(text, AuthorLabel) # <<>>
    /\ LabelValue(text, ParticipantLabel) # LabelValue(text, AuthorLabel)

\* a non-blank character follows index i of the line
TokenAfter(line, i) == \E j \in i..Len(line) : ~IsSpace(line[j])

\* the line holds one of the accepted phrasings: 'discord:' or 'discord with discord
\* id:' and a name after it
AcceptedPhrasing(line) ==
    \E i \in 1..Len(line) :
        \/ (WordAt(line, i, DiscordWord \o <<":">>) /\ TokenAfter(line, i + 8))
        \/ (WordAt(line, i, <<"d", "i", "s", "c", "o", "r", "d", " ", "w", "i", "t", "h", " ",
                              "d", "i", "s", "c", "o", "r", "d", " ", "i", "d", ":">>)
            /\ TokenAfter(line, i + 24))

(***************************************************************************)
(* C16  For text with a 'Participant:' line and an 'Author:' line of       *)
(* different values, the external identity a parser extracts equals the    *)
(* value of the 'Participant:' line.                                       *)
(***************************************************************************)
C16_ParticipantPreferred ==
    \A a \in AttemptIds :
        NamesBoth(att[a].fullText) =>
            /\ (att[a].parsedDone /\ ~att[a].parsed.isNull) =>
                 att[a].parsed.redditName = LabelValue(att[a].fullText, ParticipantLabel)
            /\ att[a].linkerDone =>
                 att[a].linker.finalRedditUser = LabelValue(att[a].fullText, ParticipantLabel)

(***************************************************************************)
(* C17  The parser fails closed: a record it returns has a non-empty       *)
(* external identity and a non-empty local identity claim; text with no    *)
(* body line, or with a body line of none of the accepted phrasings,       *)
(* yields null, and so does text whose external identity is empty after    *)
(* stripping.                                                              *)
(***************************************************************************)
C17_ParserFailsClosed ==
    \A a \in AttemptIds :
        att[a].parsedDone =>
            /\ ~att[a].parsed.isNull =>
                 /\ Trim(att[a].parsed.redditName) # <<>>
                 /\ Trim(att[a].parsed.discordName) # <<>>
            /\ LabelledLine(att[a].fullText, BodyLabel) = <<>> => att[a].parsed.isNull
            /\ ~AcceptedPhrasing(LabelledLine(att[a].fullText, BodyLabel)) => att[a].parsed.isNull
            /\ (/\ LinesOf(att[a].fullText) # <<>>
                /\ stripMarkdown(LabelValue(att[a].fullText, AuthorLabel)) = <<>>
                /\ stripMarkdown(LinesOf(att[a].fullText)[1]) = <<>>)
                   => att[a].parsed.isNull

\* a text with an author and a body line of no accepted phrasing, parsed to null
C17_Witness ==
    \E a \in AttemptIds :
        /\ att[a].parsedDone
        /\ att[a].parsed.isNull
        /\ LabelValue(att[a].fullText, AuthorLabel) # <<>>
        /\ LabelledLine(att[a].fullText, BodyLabel) # <<>>
        /\ ~AcceptedPhrasing(LabelledLine(att[a].fullText, BodyLabel))

(***************************************************************************)
(* The two formatting normalizers as functions of a string: stripMarkdown  *)
(* of the verifier and stripFormatting of the linker, each applied to a    *)
(* string and then to its own output.                                      *)
(***************************************************************************)
MaxLen == 3
NormalizerChars == {"*", "BACKTICK", "[", "]", "(", ")", " ", "a"}
NormalizerInputs == UNION {[1..n -> NormalizerChars] : n \in 0..MaxLen}

\* the last output of a normalizer, the input itself before the first application
LastOf(outputs, text) == IF outputs = <<>> THEN text ELSE outputs[Len(outputs)]

NewString(text) == [text |-> text, markdown |-> <<>>, formatting |-> <<>>]

\* str = stripMarkdown(str)
ApplyStripMarkdown(a) ==
    /\ Len(att[a].markdown) < 2
    /\ att' = [att EXCEPT ![a].markdown =
                  Append(@, stripMarkdown(LastOf(att[a].markdown, att[a].text)))]
    /\ UNCHANGED <<modmail, members, clock>>

\* text = stripFormatting(text)
ApplyStripFormatting(a) ==
    /\ Len(att[a].formatting) < 2
    /\ att' = [att EXCEPT ![a].formatting =
                  Append(@, stripFormatting(LastOf(att[a].formatting, att[a].text)))]
    /\ UNCHANGED <<modmail, members, clock>>

InitNormalizer ==
    /\ clock \in Clocks
    /\ modmail = <<>>
    /\ members = <<>>
    /\ att \in [Attempts -> {NewString(t) : t \in NormalizerInputs}]

NextNormalizer == \E a \in Attempts : ApplyStripMarkdown(a) \/ ApplyStripFormatting(a)

SpecNormalizer == InitNormalizer /\ [][NextNormalizer]_vars

(***************************************************************************)
(* C18  The formatting normalizer is idempotent: applied to its own        *)
(* output it returns that output, for stripFormatting and for              *)
(* stripMarkdown, over the strings of at most MaxLen characters from '*',  *)
(* the backtick, '[', ']', '(', ')', the space and a letter.               *)
(***************************************************************************)
C18_NormalizerIdempotent ==
    \A a \in AttemptIds :
        /\ Len(att[a].markdown) = 2 => att[a].markdown[2] = att[a].markdown[1]
        /\ Len(att[a].formatting) = 2 => att[a].formatting[2] = att[a].formatting[1]

(***************************************************************************)
(* What the property of the !reddit lookup speaks of.                      *)
(***************************************************************************)
\* the message is a !reddit the handler answers
IsRedditAttempt(a) ==
    /\ ~att[a].msg.authorBot
    /\ att[a].msg.channelId # MODMAIL_CHANNEL_ID
    /\ ContentStarts(a, RedditCommand)

\* the member looked up (0 if unresolved) and the name displayed for it
LookupTarget(a) == IF att[a].msg.mention # 0 THEN att[a].msg.mention ELSE att[a].msg.member
LookupName(a) == DisplayName(members[LookupTarget(a)])
HasBar(name) == \E i \in 1..Len(name) : name[i] = "|"

\* the text before the first '|' of the name, trimmed, a leading u/ or U/ removed
BeforeFirstBar(name) == Trim(SubSeq(name, 1, IndexOfChar(name, "|", 1) - 1))
WithoutUserPrefix(s) ==
    IF Len(s) >= 2 /\ s[1] \in {"u", "U"} /\ s[2] = "/" THEN SubSeq(s, 3, Len(s)) ELSE s

(***************************************************************************)
(* C19  The !reddit lookup of a member whose display name contains '|'     *)
(* answers with the profile URL of the trimmed text before the first '|',  *)
(* a leading 'u/' (any letter case) removed; for a display name without    *)
(* '|' it answers 'not linked' and builds no URL; it never changes a role  *)
(* or a nickname.                                                          *)
(***************************************************************************)
C19_LookupFromDisplayName ==
    \A a \in AttemptIds :
        IsRedditAttempt(a) =>
            /\ Mutations(a) = {}
            /\ (LookupTarget(a) # 0 /\ att[a].calls # <<>>) =>
                 /\ att[a].calls[1].op = "reply"
                 /\ IF HasBar(LookupName(a))
                    THEN /\ att[a].calls[1].arg.kind = "profile"
                         /\ att[a].calls[1].arg.args[3] =
                              ProfileUrlPrefix \o WithoutUserPrefix(BeforeFirstBar(LookupName(a)))
                    ELSE att[a].calls[1].arg = Reply("notLinked", <<>>)

\* a profile answered from a nickname that starts with u/ in some letter case
C19_Witness ==
    \E a \in AttemptIds :
        /\ IsRedditAttempt(a)
        /\ att[a].pc = "done"
        /\ att[a].calls[1].ok
        /\ att[a].calls[1].arg.kind = "profile"
        /\ BeforeFirstBar(LookupName(a)) # WithoutUserPrefix(BeforeFirstBar(LookupName(a)))

(***************************************************************************)
(* What the property of the paging speaks of.                              *)
(***************************************************************************)
\* the id of the last (oldest) message of the page asked for with the cursor
PageLast(cursor) ==
    IF cursor + FETCH_LIMIT <= HistoryLen(modmail) THEN cursor + FETCH_LIMIT
    ELSE HistoryLen(modmail)

\* the call is a page fetch that follows a fulfilled page fetch
IsLaterFetch(a, k) ==
    /\ k > 1
    /\ att[a].calls[k].op = "fetch"
    /\ att[a].calls[k - 1].op = "fetch"

(***************************************************************************)
(* C20  Each page after the first is requested with the cursor set to the  *)
(* id of the last (oldest) message of the previous page, and only after    *)
(* every message of the previous page has been processed; the messages are *)
(* inspected strictly from newest to oldest and none is inspected twice.   *)
(***************************************************************************)
C20_PagesInOrder ==
    \A a \in AttemptIds :
        /\ \A k \in 1..(Len(att[a].inspected) - 1) :
               att[a].inspected[k] < att[a].inspected[k + 1]
        /\ \A k \in CallsOf(a, "fetch") :
               IF IsLaterFetch(a, k) THEN att[a].calls[k].arg = PageLast(att[a].calls[k - 1].arg)
               ELSE att[a].calls[k].arg = 0
        /\ (att[a].pc = "awaitFetch" /\ CallsOf(a, "fetch") # {}) =>
               /\ att[a].lastId = PageLast(att[a].calls[Len(att[a].calls)].arg)
               /\ att[a].scanned = att[a].lastId
               /\ InspectedIds(a) = 1..att[a].lastId

\* a third page awaited after two full pages were inspected
C20_Witness ==
    \E a \in AttemptIds :
        /\ att[a].pc = "awaitFetch"
        /\ Cardinality(CallsOf(a, "fetch")) = 2
        /\ att[a].lastId = 2 * FETCH_LIMIT
        /\ Len(att[a].inspected) = 2 * FETCH_LIMIT

\* the first non-empty line of the text begins with one of the bot's notice prefixes
StartsWithNotice(text) ==
    /\ LinesOf(text) # <<>>
    /\ \E prefix \in {LinkedRedditPrefix, CouldntFindPrefix} :
           /\ Len(LinesOf(text)[1]) >= Len(prefix)
           /\ SubSeq(LinesOf(text)[1], 1, Len(prefix)) = prefix

(***************************************************************************)
(* C23  A text whose first non-empty line begins with one of the bot's own *)
(* notice prefixes parses to null, whatever Author, Body and Status lines  *)
(* follow it.                                                              *)
(***************************************************************************)
C23_NoticesParseToNull ==
    \A a \in AttemptIds :
        (att[a].parsedDone /\ StartsWithNotice(att[a].fullText)) => att[a].parsed.isNull

\* a notice followed by an author and a body line of an accepted phrasing, parsed
C23_Witness ==
    \E a \in AttemptIds :
        /\ att[a].parsedDone
        /\ att[a].parsed.isNull
        /\ StartsWithNotice(att[a].fullText)
        /\ stripMarkdown(LabelValue(att[a].fullText, AuthorLabel)) # <<>>
        /\ AcceptedPhrasing(LabelledLine(att[a].fullText, BodyLabel))

\* the message is one the handler ignores: written by a bot, or a !verify outside the
\* verify channel
IsIgnored(a) ==
    \/ att[a].msg.authorBot
    \/ (ContentStarts(a, VerifyCommand) /\ att[a].msg.channelId # VERIFY_CHANNEL_ID)

(***************************************************************************)
(* C25  A message written by a bot account, and a '!verify' posted outside *)
(* the verify channel, leave everything unchanged: no reply, no deletion,  *)
(* no history scan and no change of a role or a nickname.                  *)
(***************************************************************************)
C25_IgnoredMessagesChangeNothing ==
    \A a \in AttemptIds :
        IsIgnored(a) =>
            /\ att[a].calls = <<>>
            /\ att[a].pending = NoCall
            /\ att[a].pc \in {"new", "done"}
            /\ att[a].inspected = <<>>
            /\ \A m \in DOMAIN members : ~members[m].role /\ members[m].nickname = <<>>

\* the handler has returned from a bot's message that a user would have had answered
C25_Witness ==
    \E a \in AttemptIds :
        /\ att[a].pc = "done"
        /\ att[a].msg.authorBot
        /\ att[a].msg.channelId # MODMAIL_CHANNEL_ID
        /\ \/ att[a].msg.channelId = VERIFY_CHANNEL_ID
           \/ ContentStarts(a, RedditCommand)

(***************************************************************************)
(* C21  Every scan terminates, provided each page fetch returns: once      *)
(* findMatchingModmail awaits a page, it eventually returns (by a match, a *)
(* message older than the cutoff, the scan cap or an empty page) or the    *)
(* fetch was rejected and the scan given up.                               *)
(***************************************************************************)
C21_ScanTerminates ==
    \A a \in Attempts :
        (att[a].pc = "awaitFetch") ~> (att[a].scanDone \/ FailedCalls(a, "fetch") # {})

\* a scan of a history longer than the cap has returned at the cap
C21_Witness ==
    \E a \in AttemptIds :
        /\ att[a].scanDone
        /\ att[a].scanned > MAX_SCANNED
        /\ HistoryLen(modmail) > MAX_SCANNED
        /\ FailedCalls(a, "fetch") = {}

(***************************************************************************)
(* What the property of concurrent attempts speaks of.                     *)
(***************************************************************************)
\* role and display name of an account
Outcome(role, nickname) == [role |-> role, nickname |-> nickname]
OutcomeOf(m) == Outcome(members[m].role, members[m].nickname)

\* the messages not older than the cutoff whose record passes the checks of attempt a
PassingSince(a, cutoff) ==
    {i \in 1..HistoryLen(modmail) :
        /\ i <= MAX_SCANNED
        /\ \A j \in 1..i : TimeOf(j) >= cutoff
        /\ Passes(ParsedOf(MsgAt(modmail, i)), a)}
NewestOf(ids) == CHOOSE i \in ids : \A j \in ids : i <= j

\* what attempt a, run alone with the given cutoff and no call rejected, leaves of
\* the account: untouched without a passing message, else the role and the nickname
\* of the newest passing record
FullOutcomeFrom(a, passing) ==
    IF passing = {} THEN Outcome(FALSE, <<>>)
    ELSE Outcome(TRUE,
                 ParsedOf(MsgAt(modmail, NewestOf(passing))).redditName
                     \o <<" ", "|", " ">> \o Invoker(a).username)
FullOutcome(a, cutoff) == FullOutcomeFrom(a, PassingSince(a, cutoff))

\* what a single attempt can leave of the account when calls may be rejected:
\* nothing, the role alone, or the full outcome
SingleOutcomes(full) == {Outcome(FALSE, <<>>), full, Outcome(full.role, <<>>)}

\* the outcome is one of a single attempt with the given full outcome: the full
\* outcome itself when no call of any attempt was rejected
AsSingle(outcome, full, noCallRejected) ==
    IF noCallRejected THEN outcome = full ELSE outcome \in SingleOutcomes(full)

\* the attempts whose scan has started, and whether every attempt has ended
ScanStarted == {a \in AttemptIds : att[a].cutoff # 0}
AllEnded == \A a \in AttemptIds : att[a].pc = "done"
NoCallRejected == \A a \in AttemptIds : \A k \in 1..Len(att[a].calls) : att[a].calls[k].ok

(***************************************************************************)
(* C22  Two concurrent verification attempts of one account with the same  *)
(* claimed identity, under any interleaving of their awaited steps, end    *)
(* with a role and a display name of the account that a single such        *)
(* attempt run alone ends with; when no call is rejected, with the role    *)
(* and the name of the newest passing record.                              *)
(***************************************************************************)
C22_ConcurrentAttemptsAsOne ==
    AllEnded =>
        /\ ScanStarted = {} => OutcomeOf(1) = Outcome(FALSE, <<>>)
        /\ ScanStarted # {} =>
               \E a \in ScanStarted :
                   AsSingle(OutcomeOf(1), FullOutcome(a, att[a].cutoff), NoCallRejected)

\* both attempts, their scans started at different times, were granted the role and
\* the rename
C22_Witness ==
    /\ AllEnded
    /\ \A a \in AttemptIds :
           /\ \E k \in CallsOf(a, "roles.add") : att[a].calls[k].ok
           /\ \E k \in CallsOf(a, "setNickname") : att[a].calls[k].ok
    /\ members[1].role
    /\ members[1].nickname # <<>>
    /\ att[1].cutoff # att[2].cutoff

\* the verification of attempt v has ended with the rename made
Renamed(v) ==
    /\ IsVerifyAttempt(v)
    /\ att[v].match.found
    /\ \E k \in CallsOf(v, "setNickname") : att[v].calls[k].ok

\* the lookup of attempt l has answered with a profile read from the nickname that
\* the rename of attempt v has set
LookedUpAfter(l, v) ==
    /\ IsRedditAttempt(l)
    /\ LookupTarget(l) = att[v].msg.member
    /\ Renamed(v)
    /\ att[l].calls # <<>>
    /\ att[l].calls[1].arg.kind = "profile"
    /\ att[l].calls[1].arg.args[2] = UsernameNick(v)

(***************************************************************************)
(* C24  Round trip of verify then lookup: after a verification that ended  *)
(* with the rename made, a lookup of the same account answers with the     *)
(* profile URL of exactly the matched record's external identity, also for *)
(* an identity that contains '|' or begins with 'u/'.                      *)
(***************************************************************************)
C24_LookupReturnsMatchedIdentity ==
    \A l, v \in AttemptIds :
        LookedUpAfter(l, v) =>
            att[l].calls[1].arg.args[3] = ProfileUrlPrefix \o att[v].match.parsed.redditName

====
